---- MODULE Spec2Model ----
(***************************************************************************)
(* Upstream credential manager of delpresence-api:                         *)
(* internal/utils/campus_client.go (TokenCache, AuthRoundTripper.RoundTrip,*)
(* getNewToken, extractExpiryFromToken, NewCampusClient).                  *)
(*                                                                         *)
(* Every goroutine is a process with a program counter.  An action is one  *)
(* step of the source that touches the cache, its lock or the upstream: a  *)
(* lock operation with the field access next to it, one field read or      *)
(* write, a test with the departure of the blocking HTTP call it leads to, *)
(* the return of a blocking HTTP call.                                     *)
(*                                                                         *)
(* Local token issuer/validator and request authenticator:                 *)
(* pkg/jwt/jwt.go (GenerateAccessToken, ValidateToken), the campus token   *)
(* validator (ValidateCampusToken), the middleware (AuthMiddleware) and    *)
(* the handler constructors that build the campus clients.                 *)
(***************************************************************************)
EXTENDS Integers, Sequences, FiniteSets, TLC

\* ------------------------------------------------------------- bounds
\* outbound campus calls started in one behaviour
MaxCalls == 2
\* successful upstream logins in one behaviour
MaxLogins == 2
\* clock advances in one behaviour
MaxTicks == 1
\* ticks of the validators' clock after an instant it can jump to
MaxJwtTicks == 4
\* ticks of the clock while the middleware is watched
MaxAuthTicks == 2

\* ------------------------------------------------- program constants
\* time.Now().Add(30*time.Second), in seconds
SafetyMargin == 30
\* time.Now().Add(30 * time.Minute), in seconds
DefaultExpiry == 1800
\* expiryStr = "24h", in seconds
DefaultJwtExpiry == 86400
\* len(tokenString) < 20
MinTokenLen == 20
\* time.Now().Add(8 * time.Hour), in seconds
AdminExpiry == 28800

\* the clock moves in steps of half the safety margin
ClockStep == SafetyMargin \div 2

\* goroutines: two request handlers calling the campus API, and the
\* pre-fetch goroutine started by NewCampusClient
Callers == {"c1", "c2"}
\* the order in which free handlers take calls
Earlier(d, c) == d = "c1" /\ c = "c2"
Prefetch == "prefetch"
Procs == Callers \cup {Prefetch}
None == "none"

\* a token is the serial number of the login response that carried it (0 for
\* "") and the expiry extractExpiryFromToken finds in it; the refresh token of
\* a response is its serial number; time.Time{} is instant 0
EmptyToken == [id |-> 0, exp |-> 0]
\* a bearer token without a decodable numeric exp claim
NoExp == -1

\* the handlers that own a CampusClient
Handlers == {"mahasiswa", "lecturer", "assistant"}

VARIABLES
    now,          \* wall clock, seconds
    cache,        \* TokenCache: AuthToken, RefreshToken, ExpiresAt
    writer,       \* holder of TokenCache.mutex in write mode, or None
    readers,      \* holders of TokenCache.mutex in read mode
    issued,       \* number of tokens the upstream has issued
    pc,           \* position of each goroutine
    token,        \* RoundTrip local: token
    refreshToken, \* RoundTrip local: refreshToken
    expiresAt,    \* RoundTrip local: expiresAt
    newToken,     \* local: newToken, newRefreshToken, expiryTime
    stale,        \* RoundTrip local: tokenIsExpiredOrMissing
    logins,       \* getNewToken calls made by the current call
    sends,        \* BaseTransport.RoundTrip calls made by the current call
    unauthorized, \* 401 responses received by the current call
    stores,       \* cache updates completed by the current call
    result,       \* what the last completed call returned
    calls,        \* outbound calls started so far
    clock,        \* wall clock of the token validators, in ticks
    env,          \* process environment: JWT_SECRET, JWT_EXPIRY
    session,      \* what the last GenerateAccessToken call returned
    checked,      \* the last validator call: function, token, result
    request,      \* the inbound request in AuthMiddleware: path, header
    apc,          \* position of AuthMiddleware in that request
    attempts,     \* validation strategies tried for it, in order
    lookups,      \* Credential Store lookups made for it
    ctx,          \* keys set in its gin.Context
    resp,         \* the last outcome of AuthMiddleware: c.Next() or c.JSON
    clients,      \* the TokenCache of each handler's CampusClient
    warmed,       \* handlers whose client has finished its pre-fetch
    lastCall,     \* the last outbound call of a handler: what it did
    last,         \* the request AuthMiddleware answered last, and its answer
    acquired,     \* the bearer token getNewToken received last, its expiry
    tokens,       \* rows of the tokens table that are not deleted
    minted,       \* refresh token values generated so far
    refreshExpiry, \* REFRESH_TOKEN_EXPIRY as the handlers parse it, seconds
    rpc,          \* position of each RefreshToken request
    held,         \* RefreshToken local: token, the row read
    removed,      \* whether the request's DeleteToken removed that row
    outcome,      \* the message each RefreshToken request answered with
    uses          \* successful refreshes and logouts per token value

campusVars == <<now, cache, writer, readers, issued, pc, token, refreshToken,
                expiresAt, newToken, stale, logins, sends, unauthorized,
                stores, result, calls>>
jwtVars == <<clock, env, session, checked>>
authVars == <<request, apc, attempts, lookups, ctx, resp>>

clientVars == <<clients, warmed, lastCall>>

routeVars == <<last>>
expiryVars == <<acquired>>
refreshVars == <<tokens, minted, refreshExpiry, rpc, held, removed, outcome, uses>>
otherVars == <<routeVars, expiryVars, refreshVars>>

vars == <<campusVars, jwtVars, authVars, clientVars, otherVars>>

locals == <<token, refreshToken, expiresAt, stale>>
counters == <<logins, sends, unauthorized, stores>>
lock == <<writer, readers>>

\* -------------------------------------------------- pure functions

\* variants of the staleness test: without the safety margin, with a refresh
\* on every call, with the margin's boundary counted as stale
tokenIsExpiredNoMargin(tok, exp, t) ==
    tok.id = 0 \/ t > exp

tokenAlwaysRefreshed(tok, exp, t) == TRUE

tokenIsExpiredInclusive(tok, exp, t) ==
    tok.id = 0 \/ t + SafetyMargin >= exp

\* token == "" || time.Now().Add(30*time.Second).After(expiresAt)
tokenIsExpiredOrMissing(tok, exp, t) ==
    tok.id = 0 \/ t + SafetyMargin > exp

\* the upstream's answers to the login request: a transport error, a status
\* other than 200, a body that is not JSON, result false, an empty token, or
\* a token with exp claim e \in claims
AuthResponses(claims) ==
    {[transport |-> FALSE, status |-> 0, json |-> FALSE, result |-> FALSE, token |-> FALSE, exp |-> NoExp],
     [transport |-> TRUE, status |-> 500, json |-> FALSE, result |-> FALSE, token |-> FALSE, exp |-> NoExp],
     [transport |-> TRUE, status |-> 200, json |-> FALSE, result |-> FALSE, token |-> FALSE, exp |-> NoExp],
     [transport |-> TRUE, status |-> 200, json |-> TRUE, result |-> FALSE, token |-> FALSE, exp |-> NoExp],
     [transport |-> TRUE, status |-> 200, json |-> TRUE, result |-> TRUE, token |-> FALSE, exp |-> NoExp]}
    \cup
    {[transport |-> TRUE, status |-> 200, json |-> TRUE, result |-> TRUE, token |-> TRUE, exp |-> e] :
        e \in claims}

\* the campus system's answers: a transport error or a status code
CampusResponses == {"error", "200", "401"}

\* getNewToken's error for a login response
getNewTokenErr(r) ==
    IF ~r.transport THEN "auth request failed"
    ELSE IF r.status # 200 THEN "auth failed with status"
    ELSE IF ~r.json THEN "failed to parse response"
    ELSE IF ~r.result THEN "authentication failed"
    ELSE IF ~r.token THEN "empty token received"
    ELSE None

\* expiry of a token: its exp claim, or 30 minutes from now
extractExpiryFromToken(exp, t) ==
    IF exp = NoExp THEN t + DefaultExpiry ELSE exp

\* ----------------------------------------------- tokens (pkg/jwt)

\* the clock of the validators ticks in half seconds: time.Time is finer
\* than the whole seconds of a NumericDate.  n seconds in ticks:
Second(n) == n + n
\* jwt.NewNumericDate: the instant t (ticks) truncated to whole seconds
NewNumericDate(t) == t \div 2

ErrNil == "nil"
ErrInvalidToken == "token is invalid"
ErrExpiredToken == "token has expired"
ErrNoSecret == "JWT_SECRET environment variable not set"
ErrBadExpiry == "invalid JWT_EXPIRY format"

\* signing keys: the value of JWT_SECRET, the key ValidateCampusToken hands
\* to the parser, the campus system's own key
JwtSecret == "jwt-secret"
CampusDummyKey == "campus-api-dummy-key"
CampusKey == "campus-key"

\* signing methods by family (*jwt.SigningMethodHMAC or not)
HMACMethods == {"HS256", "HS512"}

\* CustomClaims identity fields
Identities ==
    { [UserID |-> 1, NimNip |-> "11S1", FirstName |-> "Ani", MiddleName |-> "",
       LastName |-> "Sitorus", Email |-> "ani@del"],
      [UserID |-> 2, NimNip |-> "", FirstName |-> "Budi", MiddleName |-> "T",
       LastName |-> "", Email |-> "budi@del"],
      [UserID |-> 3, NimNip |-> "11S3", FirstName |-> "Citra", MiddleName |-> "",
       LastName |-> "Purba", Email |-> "citra@del"] }
\* the zero value of the identity fields of CustomClaims
ZeroIdentity ==
    [UserID |-> 0, NimNip |-> "", FirstName |-> "", MiddleName |-> "",
     LastName |-> "", Email |-> ""]

\* the identity fields of CustomClaims as JSON members, and back
EncodeClaims(identity) ==
    [user_id |-> identity.UserID, nim_nip |-> identity.NimNip,
     first_name |-> identity.FirstName, middle_name |-> identity.MiddleName,
     last_name |-> identity.LastName, email |-> identity.Email]
DecodeClaims(json) ==
    [UserID |-> json.user_id, NimNip |-> json.nim_nip,
     FirstName |-> json.first_name, MiddleName |-> json.middle_name,
     LastName |-> json.last_name, Email |-> json.email]

\* a JSON claim value: absent, a number (in halves, so that 3 is 1.5), a
\* string (its characters), or any other JSON value
Absent == [type |-> "absent", num |-> 0, str |-> <<>>]
Number(halves) == [type |-> "number", num |-> halves, str |-> <<>>]
String(chars) == [type |-> "string", num |-> 0, str |-> chars]
Other == [type |-> "other", num |-> 0, str |-> <<>>]

\* a token string: whether it splits into three base64 JSON segments, its
\* length, the alg of its header, the key its signature was made with, and
\* its claims
Jwt(alg, key, uid, ident, exp, nbf) ==
    [form |-> "jwt", len |-> 3 * MinTokenLen, alg |-> alg, key |-> key,
     uid |-> uid, ident |-> EncodeClaims(ident), exp |-> exp, nbf |-> nbf]
Garbage(len) ==
    [form |-> "garbage", len |-> len, alg |-> "none", key |-> CampusKey,
     uid |-> Absent, ident |-> EncodeClaims(ZeroIdentity), exp |-> Absent,
     nbf |-> Absent]

\* time.ParseDuration on the values JWT_EXPIRY takes (in ticks; 0: error)
ParseDuration(str) ==
    CASE str = "24h" -> Second(DefaultJwtExpiry)
      [] str = "1s" -> Second(1)
      [] str = "1500ms" -> Second(1) + 1
      [] OTHER -> 0

\* GenerateAccessToken at instant t: token, expiryTime, error
GenerateAccessToken(identity, e, t) ==
    LET expiryStr == IF e.JWT_EXPIRY = "" THEN "24h" ELSE e.JWT_EXPIRY
        expiry == ParseDuration(expiryStr)
        expiryTime == t + expiry
    IN  IF e.JWT_SECRET = ""
        THEN [token |-> Garbage(0), expiryTime |-> 0, err |-> ErrNoSecret]
        ELSE IF expiry = 0
        THEN [token |-> Garbage(0), expiryTime |-> 0, err |-> ErrBadExpiry]
        ELSE [token |-> Jwt("HS256", e.JWT_SECRET, Absent, identity,
                            Number(Second(NewNumericDate(expiryTime))),
                            Number(Second(NewNumericDate(t)))),
              expiryTime |-> expiryTime, err |-> ErrNil]

\* the instant (ticks) of a numeric date claim: a number of seconds, cut to
\* whole seconds
DateOf(claim) == Second(claim.num \div 2)

\* the default claims validation of the parser, when the signature is good:
\* exp must be later than now, nbf not later than now
ValidateClaims(tok, t) ==
    IF tok.exp.type = "number" /\ ~ (t < DateOf(tok.exp)) THEN ErrExpiredToken
    ELSE IF tok.nbf.type = "number" /\ t < DateOf(tok.nbf) THEN ErrInvalidToken
    ELSE ErrNil

\* decoding into CustomClaims / RegisteredClaims fails on a NumericDate that
\* is not a number
DecodesAsRegistered(tok) ==
    /\ tok.exp.type \in {"absent", "number"}
    /\ tok.nbf.type \in {"absent", "number"}

\* ValidateToken with a parser that validates the claims before it verifies
\* the signature
ValidateTokenClaimsFirst(tok, e, t) ==
    IF e.JWT_SECRET = "" THEN [err |-> ErrNoSecret, claims |-> ZeroIdentity]
    ELSE IF tok.form # "jwt" \/ ~ DecodesAsRegistered(tok)
    THEN [err |-> ErrInvalidToken, claims |-> ZeroIdentity]
    ELSE IF tok.alg \notin HMACMethods
    THEN [err |-> ErrInvalidToken, claims |-> ZeroIdentity]
    ELSE IF ValidateClaims(tok, t) # ErrNil
    THEN [err |-> ValidateClaims(tok, t), claims |-> ZeroIdentity]
    ELSE IF tok.key # e.JWT_SECRET
    THEN [err |-> ErrInvalidToken, claims |-> ZeroIdentity]
    ELSE [err |-> ErrNil, claims |-> DecodeClaims(tok.ident)]

\* ValidateToken that leaves the expiry to the caller
ValidateTokenNoExpiry(tok, e, t) ==
    IF e.JWT_SECRET = "" THEN [err |-> ErrNoSecret, claims |-> ZeroIdentity]
    ELSE IF tok.form # "jwt" \/ tok.alg \notin HMACMethods \/ tok.key # e.JWT_SECRET
    THEN [err |-> ErrInvalidToken, claims |-> ZeroIdentity]
    ELSE [err |-> ErrNil, claims |-> DecodeClaims(tok.ident)]

\* ValidateToken at instant t: claims or error
ValidateToken(tok, e, t) ==
    IF e.JWT_SECRET = "" THEN [err |-> ErrNoSecret, claims |-> ZeroIdentity]
    ELSE IF tok.form # "jwt" \/ ~ DecodesAsRegistered(tok)
    THEN [err |-> ErrInvalidToken, claims |-> ZeroIdentity]
    ELSE IF tok.alg \notin HMACMethods
    THEN [err |-> ErrInvalidToken, claims |-> ZeroIdentity]
    ELSE IF tok.key # e.JWT_SECRET
    THEN [err |-> ErrInvalidToken, claims |-> ZeroIdentity]
    ELSE IF ValidateClaims(tok, t) # ErrNil
    THEN [err |-> ValidateClaims(tok, t), claims |-> ZeroIdentity]
    ELSE [err |-> ErrNil, claims |-> DecodeClaims(tok.ident)]

\* the value of a decimal digit
DigitVal(ch) ==
    CASE ch = "0" -> 0 [] ch = "1" -> 1 [] ch = "2" -> 2 [] ch = "3" -> 3
      [] ch = "4" -> 4 [] ch = "5" -> 5 [] ch = "6" -> 6 [] ch = "7" -> 7
      [] ch = "8" -> 8 [] ch = "9" -> 9 [] OTHER -> -1

\* fmt.Sscanf(s, "%d", &result): the digits s begins with, read as a decimal
\* number; what follows them is left unread.  acc is the number read so far,
\* n the count of digits read
RECURSIVE ScanDigits(_, _, _)
ScanDigits(chars, acc, n) ==
    IF chars = <<>> \/ DigitVal(Head(chars)) < 0
    THEN [value |-> acc, digits |-> n]
    ELSE ScanDigits(Tail(chars), 10 * acc + DigitVal(Head(chars)), n + 1)

\* parseInt: value and error.  %d takes a sign before the digits
parseInt(chars) ==
    LET signed == chars # <<>> /\ Head(chars) \in {"-", "+"}
        scan == ScanDigits(IF signed THEN Tail(chars) ELSE chars, 0, 0)
    IN  IF scan.digits = 0 THEN [value |-> 0, err |-> TRUE]
        ELSE IF signed /\ Head(chars) = "-"
        THEN [value |-> 0 - scan.value, err |-> FALSE]
        ELSE [value |-> scan.value, err |-> FALSE]

\* int(v) of a float64 given in halves: the fraction is dropped
IntOf(halves) ==
    IF halves >= 0 THEN halves \div 2 ELSE 0 - ((0 - halves) \div 2)

\* jwt.Parse(tokenString, keyFunc with the dummy key, WithoutClaimsValidation):
\* the error ValidateCampusToken sees, "signature" standing for an error that
\* is jwt.ErrSignatureInvalid
ParseWithDummyKey(tok) ==
    IF tok.form # "jwt" THEN "malformed"
    ELSE IF tok.alg \notin HMACMethods THEN "key"
    ELSE IF tok.key # CampusDummyKey THEN "signature"
    ELSE ErrNil

\* the uid of the CampusClaims struct after decoding
StructuredUID(tok) ==
    IF tok.uid.type = "number" THEN IntOf(tok.uid.num) ELSE 0

\* ValidateCampusToken at instant t: user id and error
ValidateCampusToken(tok, t) ==
    IF ParseWithDummyKey(tok) \notin {ErrNil, "signature"}
    THEN [err |-> ErrInvalidToken, uid |-> 0]
    ELSE IF tok.uid.type # "absent"
    THEN LET parsed == parseInt(tok.uid.str)
             userID == CASE tok.uid.type = "number" -> IntOf(tok.uid.num)
                         [] tok.uid.type = "string" -> parsed.value
                         [] OTHER -> 0
         IN  IF tok.uid.type = "other" \/ (tok.uid.type = "string" /\ parsed.err)
             THEN [err |-> ErrInvalidToken, uid |-> 0]
             ELSE IF tok.exp.type = "number" /\ t > DateOf(tok.exp)
             THEN [err |-> ErrExpiredToken, uid |-> 0]
             ELSE [err |-> ErrNil, uid |-> userID]
    ELSE \* no uid among the map claims: the structured claims
         IF ~ DecodesAsRegistered(tok)
         THEN [err |-> ErrInvalidToken, uid |-> 0]
         ELSE IF StructuredUID(tok) = 0
         THEN [err |-> ErrInvalidToken, uid |-> 0]
         ELSE IF tok.exp.type = "number" /\ t > DateOf(tok.exp)
         THEN [err |-> ErrExpiredToken, uid |-> 0]
         ELSE [err |-> ErrNil, uid |-> StructuredUID(tok)]

\* the environments the process may run in
DefaultEnv == [JWT_SECRET |-> JwtSecret, JWT_EXPIRY |-> ""]
Envs ==
    { DefaultEnv,
      [JWT_SECRET |-> JwtSecret, JWT_EXPIRY |-> "1s"],
      [JWT_SECRET |-> JwtSecret, JWT_EXPIRY |-> "1500ms"],
      [JWT_SECRET |-> JwtSecret, JWT_EXPIRY |-> "a day"],
      [JWT_SECRET |-> "", JWT_EXPIRY |-> ""] }

NoSession ==
    [identity |-> ZeroIdentity, token |-> Garbage(0), expiryTime |-> 0,
     err |-> None]
NotChecked ==
    [fn |-> None, token |-> Garbage(0), err |-> ErrNil, claims |-> ZeroIdentity,
     uid |-> 0]

\* the tokens a client can make from a session token without the secret:
\* the token itself, the same claims under another method or key, other
\* claims under its own key
Forgeries(tok) ==
    { tok, [tok EXCEPT !.alg = "RS256", !.key = CampusKey],
      [tok EXCEPT !.alg = "none", !.key = CampusKey],
      [tok EXCEPT !.key = CampusKey],
      [tok EXCEPT !.key = CampusKey, !.exp = Absent],
      Garbage(MinTokenLen) }

\* claim values of the tokens presented as campus tokens
CampusUids ==
    { Absent, Number(0), Number(2), Number(3), Number(-2), String(<<"7">>),
      String(<<"7", "x">>), String(<<"-", "5">>), String(<<"x">>),
      String(<<>>), Other }
CampusExps == { Absent, Number(2), Number(3), String(<<"1">>) }
CampusSignatures ==
    { <<"HS256", CampusDummyKey>>, <<"HS256", CampusKey>>,
      <<"RS256", CampusKey>>, <<"none", CampusKey>> }
CampusTokens ==
    { Jwt(sg[1], sg[2], u, ZeroIdentity, e, Absent) :
        sg \in CampusSignatures, u \in CampusUids, e \in CampusExps }
    \cup { Garbage(MinTokenLen) }

\* ------------------------------------------- requests (AuthMiddleware)

\* strings.HasPrefix, on paths given by their segments
HasPrefix(path, prefix) ==
    /\ Len(prefix) <= Len(path)
    /\ SubSeq(path, 1, Len(prefix)) = prefix

HealthPrefix == <<"api", "v1", "health">>
MahasiswaPrefix == <<"api", "v1", "mahasiswa">>
AssistantPrefix == <<"api", "v1", "assistant">>

\* the routes AuthMiddleware is installed on, and the health route
Paths ==
    { <<"api", "v1", "health">>,
      <<"api", "v1", "mahasiswa", "by-nim">>,
      <<"api", "v1", "assistant", "profile">>,
      <<"api", "v1", "lecturer", "profile">> }

\* an Authorization header: "" or not, the number of parts a split at the
\* spaces gives, the first part, the second part
NoHeader ==
    [present |-> FALSE, parts |-> 1, scheme |-> "", token |-> Garbage(0)]
Bearer(tok) ==
    [present |-> TRUE, parts |-> 2, scheme |-> "Bearer", token |-> tok]
BadHeaders ==
    { NoHeader,
      [present |-> TRUE, parts |-> 2, scheme |-> "Basic",
       token |-> Garbage(MinTokenLen)],
      [present |-> TRUE, parts |-> 3, scheme |-> "Bearer",
       token |-> Garbage(MinTokenLen)] }

\* the campus tokens clients present to the middleware
ClientCampusTokens ==
    { Jwt("HS256", CampusKey, u, ZeroIdentity, e, Absent) :
        u \in {Absent, Number(2), Number(8), String(<<"7">>)},
        e \in {Absent, Number(2)} }
    \cup { Jwt("RS256", CampusKey, Number(2), ZeroIdentity, Absent, Absent) }

\* the rows of the users table: user 1 as the session token describes it,
\* user 2 changed since, user 3 gone
ZeroUser ==
    [ID |-> 0, UserType |-> "", Email |-> "", FirstName |-> "",
     MiddleName |-> "", LastName |-> ""]
Users ==
    { [ID |-> 1, UserType |-> "student", Email |-> "ani@del",
       FirstName |-> "Ani", MiddleName |-> "", LastName |-> "Sitorus"],
      [ID |-> 2, UserType |-> "lecture", Email |-> "budi@itdel",
       FirstName |-> "Budi", MiddleName |-> "", LastName |-> "Tampubolon"] }

ErrUserNotFound == "user not found"
ErrDatabase == "database error"

\* UserRepository.GetUserByID, the database answering or not
GetUserByID(id, up) ==
    IF ~ up THEN [user |-> ZeroUser, err |-> ErrDatabase]
    ELSE IF \E u \in Users : u.ID = id
    THEN [user |-> CHOOSE u \in Users : u.ID = id, err |-> ErrNil]
    ELSE [user |-> ZeroUser, err |-> ErrUserNotFound]

StatusUnauthorized == 401
StatusInternalServerError == 500

\* outcomes: nothing yet, c.Next(), c.JSON(status, error) with c.Abort()
NoResp == [next |-> FALSE, status |-> 0, error |-> ""]
PassOn == [next |-> TRUE, status |-> 0, error |-> ""]
AbortWith(status, error) == [next |-> FALSE, status |-> status, error |-> error]

\* the keys of a gin.Context and their values
EmptyCtx ==
    [keys |-> {}, user_id |-> 0, campus_user_id |-> 0,
     campus_authenticated |-> FALSE, user |-> ZeroUser]
CampusCtx(uid) ==
    [keys |-> {"user_id", "campus_user_id", "campus_authenticated"},
     user_id |-> uid, campus_user_id |-> uid, campus_authenticated |-> TRUE,
     user |-> ZeroUser]
LocalCtx(user) ==
    [keys |-> {"user_id", "user_type", "email", "first_name", "middle_name",
               "last_name"},
     user_id |-> user.ID, campus_user_id |-> 0,
     campus_authenticated |-> FALSE, user |-> user]

\* a bearer token as extractExpiryFromToken sees it: the number of parts
\* between its dots, whether the second part is base64url, whether that is
\* a JSON object, and the exp member of the object
Bearer3(parts, base64, json, exp) ==
    [parts |-> parts, base64 |-> base64, json |-> json, exp |-> exp]
EmptyBearer == Bearer3(1, FALSE, FALSE, Absent)

\* no request answered yet
NoLast == [path |-> <<>>, token |-> Garbage(0), at |-> 0, next |-> FALSE,
           status |-> 0]

\* no outbound call made yet
NoCall == [handler |-> None, stale |-> FALSE, logins |-> 0, unauthorized |-> 0,
           token |-> 0]

\* ------------------------------------------------------------ Init

InitCampus ==
    /\ now = 0
    /\ cache = [AuthToken |-> EmptyToken, RefreshToken |-> 0, ExpiresAt |-> 0]
    /\ writer = None
    /\ readers = {}
    /\ issued = 0
    /\ pc = [p \in Procs |-> IF p = Prefetch THEN "go" ELSE "idle"]
    /\ token = [c \in Callers |-> EmptyToken]
    /\ refreshToken = [c \in Callers |-> 0]
    /\ expiresAt = [c \in Callers |-> 0]
    /\ newToken = [p \in Procs |-> EmptyToken]
    /\ stale = [c \in Callers |-> FALSE]
    /\ logins = [p \in Procs |-> 0]
    /\ sends = [c \in Callers |-> 0]
    /\ unauthorized = [c \in Callers |-> 0]
    /\ stores = [p \in Procs |-> 0]
    /\ result = [c \in Callers |-> None]
    /\ calls = 0

\* the validators' part of the state of a process started in environment e
InitJwt(e) ==
    /\ clock = 0
    /\ env = e
    /\ session = NoSession
    /\ checked = NotChecked

\* the middleware before the first request
InitAuth ==
    /\ request = [path |-> <<>>, header |-> NoHeader]
    /\ apc = "idle"
    /\ attempts = <<>>
    /\ lookups = 0
    /\ ctx = EmptyCtx
    /\ resp = NoResp

\* the handlers' clients as their constructors leave them
InitClients ==
    /\ clients = [h \in Handlers |->
                    [AuthToken |-> EmptyToken, RefreshToken |-> 0, ExpiresAt |-> 0]]
    /\ warmed = {}
    /\ lastCall = NoCall

\* no request answered yet, no token acquired yet
InitRoutes ==
    /\ last = NoLast
    /\ acquired = [bearer |-> EmptyBearer, at |-> 0, expiryTime |-> 0]

\* the requests that redeem refresh tokens
Refreshers == {"r1", "r2"}

\* the account refresh tokens are stored for
Accounts == {1}

\* refresh token values generated per run
MaxTokens == 3
TokenValues == 1..MaxTokens

\* "168h", the default of REFRESH_TOKEN_EXPIRY, in seconds
DefaultRefreshExpiry == 604800

\* REFRESH_TOKEN_EXPIRY set to "1s", and unset or unparsable
RefreshExpiries == {1, DefaultRefreshExpiry}

NoRow == [token |-> 0, user |-> 0, exp |-> 0]

\* an empty tokens table, no request under way
InitRefresh(d) ==
    /\ tokens = {}
    /\ minted = 0
    /\ refreshExpiry = d
    /\ rpc = [p \in Refreshers |-> "idle"]
    /\ held = [p \in Refreshers |-> NoRow]
    /\ removed = [p \in Refreshers |-> FALSE]
    /\ outcome = [p \in Refreshers |-> ""]
    /\ uses = [v \in TokenValues |-> 0]

Init ==
    /\ InitCampus
    /\ InitJwt(DefaultEnv)
    /\ InitAuth
    /\ InitClients
    /\ InitRoutes
    /\ InitRefresh(DefaultRefreshExpiry)

\* ---------------------------------------------------------- actions

\* the clock advances
Tick ==
    /\ now < MaxTicks * ClockStep
    /\ now' = now + ClockStep
    /\ UNCHANGED <<cache, lock, issued, pc, locals, newToken, counters, result, calls>>

\* RoundTrip returns v: its locals are gone
Return(c, v) ==
    /\ pc' = [pc EXCEPT ![c] = "idle"]
    /\ result' = [result EXCEPT ![c] = v]
    /\ token' = [token EXCEPT ![c] = EmptyToken]
    /\ refreshToken' = [refreshToken EXCEPT ![c] = 0]
    /\ expiresAt' = [expiresAt EXCEPT ![c] = 0]
    /\ newToken' = [newToken EXCEPT ![c] = EmptyToken]
    /\ stale' = [stale EXCEPT ![c] = FALSE]
    /\ logins' = [logins EXCEPT ![c] = 0]
    /\ sends' = [sends EXCEPT ![c] = 0]
    /\ unauthorized' = [unauthorized EXCEPT ![c] = 0]
    /\ stores' = [stores EXCEPT ![c] = 0]

\* variant of RLock that does not wait for the writer
RLockNoWait(c) ==
    /\ pc[c] = "idle"
    /\ \A d \in Callers : Earlier(d, c) => pc[d] # "idle"
    /\ calls < MaxCalls
    /\ calls' = calls + 1
    /\ readers' = readers \cup {c}
    /\ token' = [token EXCEPT ![c] = cache.AuthToken]
    /\ pc' = [pc EXCEPT ![c] = "readRefreshToken"]
    /\ UNCHANGED <<now, cache, writer, issued, refreshToken, expiresAt, stale,
                   newToken, counters, result>>

\* a handler calls httpClient.Get and RoundTrip is entered (handlers are
\* interchangeable: a call takes the first free one):
\* rt.TokenCache.mutex.RLock(); token := rt.TokenCache.AuthToken
RLock(c) ==
    /\ pc[c] = "idle"
    /\ \A d \in Callers : Earlier(d, c) => pc[d] # "idle"
    /\ calls < MaxCalls
    /\ calls' = calls + 1
    /\ writer = None
    /\ readers' = readers \cup {c}
    /\ token' = [token EXCEPT ![c] = cache.AuthToken]
    /\ pc' = [pc EXCEPT ![c] = "readRefreshToken"]
    /\ UNCHANGED <<now, cache, writer, issued, refreshToken, expiresAt, stale,
                   newToken, counters, result>>

\* refreshToken := rt.TokenCache.RefreshToken
ReadRefreshToken(c) ==
    /\ pc[c] = "readRefreshToken"
    /\ refreshToken' = [refreshToken EXCEPT ![c] = cache.RefreshToken]
    /\ pc' = [pc EXCEPT ![c] = "readExpiresAt"]
    /\ UNCHANGED <<now, cache, lock, issued, token, expiresAt, stale,
                   newToken, counters, result, calls>>

\* expiresAt := rt.TokenCache.ExpiresAt; rt.TokenCache.mutex.RUnlock()
RUnlock(c) ==
    /\ pc[c] = "readExpiresAt"
    /\ expiresAt' = [expiresAt EXCEPT ![c] = cache.ExpiresAt]
    /\ readers' = readers \ {c}
    /\ pc' = [pc EXCEPT ![c] = "check"]
    /\ UNCHANGED <<now, cache, writer, issued, token, refreshToken, stale,
                   newToken, counters, result, calls>>

\* getNewToken(): the login request leaves for the upstream (client.Do)
GetNewTokenCall(p) ==
    /\ logins' = [logins EXCEPT ![p] = @ + 1]
    /\ pc' = [pc EXCEPT ![p] = "authWait"]

\* rt.BaseTransport.RoundTrip(reqClone): the request leaves with its bearer
BaseTransportCall(c, wait) ==
    /\ sends' = [sends EXCEPT ![c] = @ + 1]
    /\ pc' = [pc EXCEPT ![c] = wait]

\* variant of CheckToken that takes the write lock before it calls
\* getNewToken and keeps it for the store
CheckTokenLocked(c) ==
    /\ pc[c] = "check"
    /\ stale' = [stale EXCEPT ![c] = tokenIsExpiredOrMissing(token[c], expiresAt[c], now)]
    /\ IF stale'[c]
       THEN /\ writer = None /\ readers = {}
            /\ writer' = c
            /\ GetNewTokenCall(c)
            /\ UNCHANGED sends
       ELSE /\ BaseTransportCall(c, "respWait")
            /\ UNCHANGED <<logins, writer>>
    /\ UNCHANGED <<now, cache, readers, issued, token, refreshToken, expiresAt,
                   newToken, unauthorized, stores, result, calls>>

\* tokenIsExpiredOrMissing := ...; if it is, getNewToken() is called; if not,
\* the request is sent with the token read
CheckToken(c) ==
    /\ pc[c] = "check"
    /\ stale' = [stale EXCEPT ![c] = tokenIsExpiredOrMissing(token[c], expiresAt[c], now)]
    /\ IF stale'[c]
       THEN GetNewTokenCall(c) /\ UNCHANGED sends
       ELSE BaseTransportCall(c, "respWait") /\ UNCHANGED logins
    /\ UNCHANGED <<now, cache, lock, issued, token, refreshToken, expiresAt,
                   newToken, unauthorized, stores, result, calls>>

\* go func() { token, refreshToken, expiresAt, err := getNewToken() ...
PrefetchStart ==
    /\ pc[Prefetch] = "go"
    /\ GetNewTokenCall(Prefetch)
    /\ UNCHANGED <<now, cache, lock, issued, locals, newToken, sends,
                   unauthorized, stores, result, calls>>

\* what RoundTrip returns when getNewToken fails
AuthErrorOf(c) ==
    IF unauthorized[c] = 0 THEN "failed to get authentication token"
    ELSE "failed to refresh authentication token"

\* authResp.Token with the expiry getNewToken extracts from it
TokenOf(r, t) ==
    [id |-> IF r.token THEN issued + 1 ELSE 0, exp |-> extractExpiryFromToken(r.exp, t)]

\* variant of GetNewTokenFail that calls getNewToken once more before it
\* gives up
GetNewTokenFailRetry(p, r) ==
    /\ pc[p] = "authWait"
    /\ getNewTokenErr(r) # None
    /\ IF p = Prefetch
       THEN /\ pc' = [pc EXCEPT ![p] = "done"]
            /\ logins' = [logins EXCEPT ![p] = 0]
            /\ UNCHANGED <<locals, newToken, sends, unauthorized, stores, result>>
       ELSE IF logins[p] - unauthorized[p] < 2
       THEN /\ logins' = [logins EXCEPT ![p] = @ + 1]
            /\ UNCHANGED <<pc, locals, newToken, sends, unauthorized, stores, result>>
       ELSE Return(p, AuthErrorOf(p))
    /\ UNCHANGED <<now, cache, lock, issued, calls>>

\* getNewToken() returns an error: RoundTrip returns it, the pre-fetch
\* goroutine logs it and ends
GetNewTokenFail(p, r) ==
    /\ pc[p] = "authWait"
    /\ getNewTokenErr(r) # None
    /\ IF p = Prefetch
       THEN /\ pc' = [pc EXCEPT ![p] = "done"]
            /\ logins' = [logins EXCEPT ![p] = 0]
            /\ UNCHANGED <<locals, newToken, sends, unauthorized, stores, result>>
       ELSE Return(p, AuthErrorOf(p))
    /\ UNCHANGED <<now, cache, lock, issued, calls>>

\* getNewToken() returns the token, the refresh token and the expiry
GetNewTokenOk(p, r) ==
    /\ pc[p] = "authWait"
    /\ getNewTokenErr(r) = None
    /\ issued < MaxLogins
    /\ issued' = issued + 1
    /\ newToken' = [newToken EXCEPT ![p] = TokenOf(r, now)]
    /\ pc' = [pc EXCEPT ![p] = "Lock"]
    /\ UNCHANGED <<now, cache, lock, locals, counters, result, calls>>

\* variant of Lock that keeps a cached token issued later than newToken
LockIfNewer(p) ==
    /\ pc[p] = "Lock"
    /\ writer = None
    /\ readers = {}
    /\ writer' = p
    /\ cache' = IF newToken[p].id > cache.AuthToken.id
                THEN [cache EXCEPT !.AuthToken = newToken[p]]
                ELSE cache
    /\ pc' = [pc EXCEPT ![p] = "writeRefreshToken"]
    /\ UNCHANGED <<now, readers, issued, locals, newToken, counters, result, calls>>

\* variant of Lock that waits for nobody
LockNoWait(p) ==
    /\ pc[p] = "Lock"
    /\ writer' = p
    /\ cache' = [cache EXCEPT !.AuthToken = newToken[p]]
    /\ pc' = [pc EXCEPT ![p] = "writeRefreshToken"]
    /\ UNCHANGED <<now, readers, issued, locals, newToken, counters, result, calls>>

\* TokenCache.mutex.Lock(); TokenCache.AuthToken = newToken
Lock(p) ==
    /\ pc[p] = "Lock"
    /\ writer = None
    /\ readers = {}
    /\ writer' = p
    /\ cache' = [cache EXCEPT !.AuthToken = newToken[p]]
    /\ pc' = [pc EXCEPT ![p] = "writeRefreshToken"]
    /\ UNCHANGED <<now, readers, issued, locals, newToken, counters, result, calls>>

\* TokenCache.RefreshToken = newRefreshToken
WriteRefreshToken(p) ==
    /\ pc[p] = "writeRefreshToken"
    /\ cache' = [cache EXCEPT !.RefreshToken = newToken[p].id]
    /\ pc' = [pc EXCEPT ![p] = "writeExpiresAt"]
    /\ UNCHANGED <<now, lock, issued, locals, newToken, counters, result, calls>>

\* TokenCache.ExpiresAt = expiryTime; TokenCache.mutex.Unlock(); then
\* token = newToken and the send (stale path), the resend with newToken (401
\* path), or the end of the pre-fetch goroutine
Unlock(p) ==
    /\ pc[p] = "writeExpiresAt"
    /\ cache' = [cache EXCEPT !.ExpiresAt = newToken[p].exp]
    /\ writer' = None
    /\ IF p = Prefetch
       THEN /\ pc' = [pc EXCEPT ![p] = "done"]
            /\ newToken' = [newToken EXCEPT ![p] = EmptyToken]
            /\ logins' = [logins EXCEPT ![p] = 0]
            /\ UNCHANGED <<token, stores, sends>>
       ELSE /\ stores' = [stores EXCEPT ![p] = @ + 1]
            /\ BaseTransportCall(p, IF unauthorized[p] = 0 THEN "respWait" ELSE "retryWait")
            /\ token' = [token EXCEPT ![p] = IF unauthorized[p] = 0 THEN newToken[p] ELSE @]
            /\ UNCHANGED <<newToken, logins>>
    /\ UNCHANGED <<now, readers, issued, refreshToken, expiresAt, stale,
                   unauthorized, result, calls>>

\* the first send returns err or a status other than 401: RoundTrip returns it
Response(c, s) ==
    /\ pc[c] = "respWait"
    /\ s # "401"
    /\ Return(c, s)
    /\ UNCHANGED <<now, cache, lock, issued, calls>>

\* variant of Unauthorized that empties the cache before it calls getNewToken
UnauthorizedDiscard(c) ==
    /\ pc[c] = "respWait"
    /\ writer = None /\ readers = {}
    /\ cache' = [AuthToken |-> EmptyToken, RefreshToken |-> 0, ExpiresAt |-> 0]
    /\ unauthorized' = [unauthorized EXCEPT ![c] = @ + 1]
    /\ GetNewTokenCall(c)
    /\ UNCHANGED <<now, lock, issued, locals, newToken, sends,
                   stores, result, calls>>

\* the first send returns 401: resp.Body.Close(), getNewToken() is called
Unauthorized(c) ==
    /\ pc[c] = "respWait"
    /\ unauthorized' = [unauthorized EXCEPT ![c] = @ + 1]
    /\ GetNewTokenCall(c)
    /\ UNCHANGED <<now, cache, lock, issued, locals, newToken, sends,
                   stores, result, calls>>

\* variant of RetryResponse that answers a second 401 like the first
RetryResponseAgain(c, s) ==
    /\ pc[c] = "retryWait"
    /\ IF s = "401"
       THEN /\ unauthorized' = [unauthorized EXCEPT ![c] = @ + 1]
            /\ GetNewTokenCall(c)
            /\ UNCHANGED <<locals, newToken, sends, stores, result>>
       ELSE Return(c, s)
    /\ UNCHANGED <<now, cache, lock, issued, calls>>

\* the resend returns: whatever it is goes to RoundTrip's caller
RetryResponse(c, s) ==
    /\ pc[c] = "retryWait"
    /\ Return(c, s)
    /\ UNCHANGED <<now, cache, lock, issued, calls>>

\* exp claims of the tokens the upstream issues in a race: within the safety
\* margin of expiry, or none
RaceClaims == {NoExp, now + ClockStep}

\* the handlers and the pre-fetch racing, in a window too short for the clock
\* to advance
Next ==
    \/ \E c \in Callers : RLock(c) /\ UNCHANGED <<jwtVars, authVars, clientVars, otherVars>>
    \/ \E c \in Callers : ReadRefreshToken(c) /\ UNCHANGED <<jwtVars, authVars, clientVars, otherVars>>
    \/ \E c \in Callers : RUnlock(c) /\ UNCHANGED <<jwtVars, authVars, clientVars, otherVars>>
    \/ \E c \in Callers : CheckToken(c) /\ UNCHANGED <<jwtVars, authVars, clientVars, otherVars>>
    \/ PrefetchStart /\ UNCHANGED <<jwtVars, authVars, clientVars, otherVars>>
    \/ \E p \in Procs : \E r \in AuthResponses(RaceClaims) : GetNewTokenFail(p, r) /\ UNCHANGED <<jwtVars, authVars, clientVars, otherVars>>
    \/ \E p \in Procs : \E r \in AuthResponses(RaceClaims) : GetNewTokenOk(p, r) /\ UNCHANGED <<jwtVars, authVars, clientVars, otherVars>>
    \/ \E p \in Procs : Lock(p) /\ UNCHANGED <<jwtVars, authVars, clientVars, otherVars>>
    \/ \E p \in Procs : WriteRefreshToken(p) /\ UNCHANGED <<jwtVars, authVars, clientVars, otherVars>>
    \/ \E p \in Procs : Unlock(p) /\ UNCHANGED <<jwtVars, authVars, clientVars, otherVars>>
    \/ \E c \in Callers : \E s \in CampusResponses : Response(c, s) /\ UNCHANGED <<jwtVars, authVars, clientVars, otherVars>>
    \/ \E c \in Callers : Unauthorized(c) /\ UNCHANGED <<jwtVars, authVars, clientVars, otherVars>>
    \/ \E c \in Callers : \E s \in CampusResponses : RetryResponse(c, s) /\ UNCHANGED <<jwtVars, authVars, clientVars, otherVars>>

Spec == Init /\ [][Next]_vars

\* exp claims of every remaining lifetime: none, expired, within the safety
\* margin, exactly the safety margin
SeqClaims == {NoExp, now, now + ClockStep, now + SafetyMargin}
SeqCallers == {"c1"}
SeqProcs == SeqCallers \cup {Prefetch}

\* one handler and the pre-fetch, over time
NextSeq ==
    \/ Tick /\ UNCHANGED <<jwtVars, authVars, clientVars, otherVars>>
    \/ \E c \in SeqCallers : RLock(c) /\ UNCHANGED <<jwtVars, authVars, clientVars, otherVars>>
    \/ \E c \in SeqCallers : ReadRefreshToken(c) /\ UNCHANGED <<jwtVars, authVars, clientVars, otherVars>>
    \/ \E c \in SeqCallers : RUnlock(c) /\ UNCHANGED <<jwtVars, authVars, clientVars, otherVars>>
    \/ \E c \in SeqCallers : CheckToken(c) /\ UNCHANGED <<jwtVars, authVars, clientVars, otherVars>>
    \/ PrefetchStart /\ UNCHANGED <<jwtVars, authVars, clientVars, otherVars>>
    \/ \E p \in SeqProcs : \E r \in AuthResponses(SeqClaims) : GetNewTokenFail(p, r) /\ UNCHANGED <<jwtVars, authVars, clientVars, otherVars>>
    \/ \E p \in SeqProcs : \E r \in AuthResponses(SeqClaims) : GetNewTokenOk(p, r) /\ UNCHANGED <<jwtVars, authVars, clientVars, otherVars>>
    \/ \E p \in SeqProcs : Lock(p) /\ UNCHANGED <<jwtVars, authVars, clientVars, otherVars>>
    \/ \E p \in SeqProcs : WriteRefreshToken(p) /\ UNCHANGED <<jwtVars, authVars, clientVars, otherVars>>
    \/ \E p \in SeqProcs : Unlock(p) /\ UNCHANGED <<jwtVars, authVars, clientVars, otherVars>>
    \/ \E c \in SeqCallers : \E s \in CampusResponses : Response(c, s) /\ UNCHANGED <<jwtVars, authVars, clientVars, otherVars>>
    \/ \E c \in SeqCallers : Unauthorized(c) /\ UNCHANGED <<jwtVars, authVars, clientVars, otherVars>>
    \/ \E c \in SeqCallers : \E s \in CampusResponses : RetryResponse(c, s) /\ UNCHANGED <<jwtVars, authVars, clientVars, otherVars>>

SpecSeq == Init /\ [][NextSeq]_vars

\* --------------------------------------------- token validator calls

\* the clock of the validators advances by a tick or by the default lifetime
\* of a session token; a result obtained earlier is no longer current
ClockAdvance(d) ==
    /\ (clock + d) % Second(DefaultJwtExpiry) <= MaxJwtTicks
    /\ (clock + d) \div Second(DefaultJwtExpiry) <= 1
    /\ clock' = clock + d
    /\ checked' = NotChecked
    /\ UNCHANGED <<env, session>>

\* a login handler issues a session token
GenerateAccessTokenCall(identity) ==
    /\ session' = [identity |-> identity,
                   token |-> GenerateAccessToken(identity, env, clock).token,
                   expiryTime |-> GenerateAccessToken(identity, env, clock).expiryTime,
                   err |-> GenerateAccessToken(identity, env, clock).err]
    /\ checked' = NotChecked
    /\ UNCHANGED <<clock, env>>

\* a token is handed to ValidateToken
ValidateTokenCall(tok) ==
    /\ checked' = [fn |-> "ValidateToken", token |-> tok,
                   err |-> ValidateToken(tok, env, clock).err,
                   claims |-> ValidateToken(tok, env, clock).claims,
                   uid |-> 0]
    /\ UNCHANGED <<clock, env, session>>

\* a token is handed to ValidateCampusToken
ValidateCampusTokenCall(tok) ==
    /\ checked' = [fn |-> "ValidateCampusToken", token |-> tok,
                   err |-> ValidateCampusToken(tok, clock).err,
                   claims |-> ZeroIdentity,
                   uid |-> ValidateCampusToken(tok, clock).uid]
    /\ UNCHANGED <<clock, env, session>>

\* the local issuer and validator over time
NextJwt ==
    \/ \E d \in {1, Second(DefaultJwtExpiry)} : ClockAdvance(d) /\ UNCHANGED <<campusVars, authVars, clientVars, otherVars>>
    \/ \E i \in Identities : GenerateAccessTokenCall(i) /\ UNCHANGED <<campusVars, authVars, clientVars, otherVars>>
    \/ \E tok \in Forgeries(session.token) :
           /\ session.err = ErrNil \/ tok.form = "garbage"
           /\ ValidateTokenCall(tok)
           /\ UNCHANGED <<campusVars, authVars, clientVars, otherVars>>

SpecJwt ==
    (\E e \in Envs : InitCampus /\ InitJwt(e) /\ InitAuth /\ InitClients /\ InitRoutes /\ InitRefresh(DefaultRefreshExpiry)) /\ [][NextJwt]_vars

\* the campus token validator over time
NextCampusToken ==
    \/ \E d \in {1, Second(DefaultJwtExpiry)} : ClockAdvance(d) /\ UNCHANGED <<campusVars, authVars, clientVars, otherVars>>
    \/ \E tok \in CampusTokens : ValidateCampusTokenCall(tok) /\ UNCHANGED <<campusVars, authVars, clientVars, otherVars>>

SpecCampusToken == Init /\ [][NextCampusToken]_vars

\* ------------------------------------------------------ AuthMiddleware

\* the request is on a mahasiswa or assistant path
IsFlexible(path) ==
    HasPrefix(path, MahasiswaPrefix) \/ HasPrefix(path, AssistantPrefix)

\* a request reaches the middleware
AuthRequest(path, header) ==
    /\ apc = "idle"
    /\ request' = [path |-> path, header |-> header]
    /\ apc' = "header"
    /\ attempts' = <<>>
    /\ lookups' = 0
    /\ ctx' = EmptyCtx
    /\ UNCHANGED resp

\* the middleware ends with the outcome r
Finish(r) ==
    /\ resp' = r
    /\ apc' = "idle"

\* the header checks without the one of the token's length
CheckHeaderAnyLength ==
    /\ apc = "header"
    /\ IF HasPrefix(request.path, HealthPrefix)
       THEN Finish(PassOn)
       ELSE IF ~ request.header.present
       THEN Finish(AbortWith(StatusUnauthorized, "Authorization header is missing"))
       ELSE IF request.header.parts # 2 \/ request.header.scheme # "Bearer"
       THEN Finish(AbortWith(StatusUnauthorized,
                             "Invalid authorization header format"))
       ELSE apc' = "case1" /\ UNCHANGED resp
    /\ UNCHANGED <<request, attempts, lookups, ctx>>

\* the header checks answering with the generic message
CheckHeaderGeneric ==
    /\ apc = "header"
    /\ IF HasPrefix(request.path, HealthPrefix)
       THEN Finish(PassOn)
       ELSE IF \/ ~ request.header.present
               \/ request.header.parts # 2 \/ request.header.scheme # "Bearer"
               \/ request.header.token.len < MinTokenLen
       THEN Finish(AbortWith(StatusUnauthorized, "Invalid or expired token"))
       ELSE apc' = "case1" /\ UNCHANGED resp
    /\ UNCHANGED <<request, attempts, lookups, ctx>>

\* the health path, the Authorization header and the length of the token
CheckHeader ==
    /\ apc = "header"
    /\ IF HasPrefix(request.path, HealthPrefix)
       THEN Finish(PassOn)
       ELSE IF ~ request.header.present
       THEN Finish(AbortWith(StatusUnauthorized, "Authorization header is missing"))
       ELSE IF request.header.parts # 2 \/ request.header.scheme # "Bearer"
       THEN Finish(AbortWith(StatusUnauthorized,
                             "Invalid authorization header format"))
       ELSE IF request.header.token.len < MinTokenLen
       THEN Finish(AbortWith(StatusUnauthorized, "Invalid token"))
       ELSE apc' = "case1" /\ UNCHANGED resp
    /\ UNCHANGED <<request, attempts, lookups, ctx>>

\* the request passed on after a campus validation with no key set
AcceptCampusUnset(uid) ==
    /\ UNCHANGED ctx
    /\ Finish(PassOn)

\* ValidateCampusToken succeeded: the identity of the request
AcceptCampus(uid) ==
    /\ ctx' = CampusCtx(uid)
    /\ Finish(PassOn)

\* one try of a validation strategy and the error it ended with
Attempt(strategy, err) == [strategy |-> strategy, err |-> err]

\* CASE 1 taken on every path
Case1AnyPath ==
    /\ apc = "case1"
    /\ LET r == ValidateCampusToken(request.header.token, clock)
       IN  /\ attempts' = Append(attempts, Attempt("campus", r.err))
           /\ IF r.err = ErrNil
              THEN AcceptCampus(r.uid)
              ELSE apc' = "case2" /\ UNCHANGED <<ctx, resp>>
    /\ UNCHANGED <<request, lookups>>

\* CASE 1: on a mahasiswa or assistant path, the campus validation first
Case1 ==
    /\ apc = "case1"
    /\ LET r == ValidateCampusToken(request.header.token, clock)
       IN  IF IsFlexible(request.path)
           THEN /\ attempts' = Append(attempts, Attempt("campus", r.err))
                /\ IF r.err = ErrNil
                   THEN AcceptCampus(r.uid)
                   ELSE apc' = "case2" /\ UNCHANGED <<ctx, resp>>
           ELSE apc' = "case2" /\ UNCHANGED <<attempts, ctx, resp>>
    /\ UNCHANGED <<request, lookups>>

\* CASE 2 taking the identity from the claims of the token
Case2TrustClaims(up) ==
    /\ apc = "case2"
    /\ LET v == ValidateToken(request.header.token, env, clock)
       IN  /\ attempts' = Append(attempts, Attempt("local", v.err))
           /\ IF v.err = ErrNil
              THEN /\ ctx' = LocalCtx([ID |-> v.claims.UserID, UserType |-> "",
                                       Email |-> v.claims.Email,
                                       FirstName |-> v.claims.FirstName,
                                       MiddleName |-> v.claims.MiddleName,
                                       LastName |-> v.claims.LastName])
                   /\ Finish(PassOn)
              ELSE apc' = "case3" /\ UNCHANGED <<ctx, resp>>
    /\ UNCHANGED <<request, lookups>>

\* CASE 2 going on to CASE 3 when the store lookup fails
Case2FallThrough(up) ==
    /\ apc = "case2"
    /\ LET v == ValidateToken(request.header.token, env, clock)
           g == GetUserByID(v.claims.UserID, up)
       IN  /\ attempts' = Append(attempts, Attempt("local", v.err))
           /\ IF v.err = ErrNil
              THEN /\ lookups' = lookups + 1
                   /\ IF g.err # ErrNil
                      THEN apc' = "case3" /\ UNCHANGED <<ctx, resp>>
                      ELSE ctx' = LocalCtx(g.user) /\ Finish(PassOn)
              ELSE apc' = "case3" /\ UNCHANGED <<ctx, resp, lookups>>
    /\ UNCHANGED request

\* CASE 2: the local validation, then the user row of the subject
Case2(up) ==
    /\ apc = "case2"
    /\ LET v == ValidateToken(request.header.token, env, clock)
           g == GetUserByID(v.claims.UserID, up)
       IN  /\ attempts' = Append(attempts, Attempt("local", v.err))
           /\ IF v.err = ErrNil
              THEN /\ lookups' = lookups + 1
                   /\ IF g.err = ErrUserNotFound
                      THEN /\ Finish(AbortWith(StatusUnauthorized,
                                               "User not found"))
                           /\ UNCHANGED ctx
                      ELSE IF g.err # ErrNil
                      THEN /\ Finish(AbortWith(StatusInternalServerError,
                                               "Database error"))
                           /\ UNCHANGED ctx
                      ELSE /\ ctx' = LocalCtx(g.user)
                           /\ Finish(PassOn)
              ELSE apc' = "case3" /\ UNCHANGED <<ctx, resp, lookups>>
    /\ UNCHANGED request

\* CASE 3 without the campus validation as last resort
Case3NoLastResort ==
    /\ apc = "case3"
    /\ Finish(AbortWith(StatusUnauthorized, "Invalid or expired token"))
    /\ UNCHANGED <<request, lookups, attempts, ctx>>

\* CASE 3: on the other paths the campus validation as last resort, then
\* the rejection
Case3 ==
    /\ apc = "case3"
    /\ LET r == ValidateCampusToken(request.header.token, clock)
       IN  IF ~ IsFlexible(request.path)
           THEN /\ attempts' = Append(attempts, Attempt("campus", r.err))
                /\ IF r.err = ErrNil
                   THEN AcceptCampus(r.uid)
                   ELSE /\ Finish(AbortWith(StatusUnauthorized,
                                            "Invalid or expired token"))
                        /\ UNCHANGED ctx
           ELSE /\ Finish(AbortWith(StatusUnauthorized,
                                    "Invalid or expired token"))
                /\ UNCHANGED <<attempts, ctx>>
    /\ UNCHANGED <<request, lookups>>

\* the tokens clients hold: the session token and what can be made of it
\* without the secret, campus tokens, strings that are no tokens
RequestTokens ==
    (IF session.err = ErrNil THEN Forgeries(session.token) ELSE {})
    \cup ClientCampusTokens
    \cup {Garbage(MinTokenLen - 1), Garbage(MinTokenLen)}

\* the environment of the middleware runs: session tokens live one second
ShortEnv == [JWT_SECRET |-> JwtSecret, JWT_EXPIRY |-> "1s"]

\* logins, requests and the clock
NextAuth ==
    \/ clock < MaxAuthTicks /\ ClockAdvance(1) /\ UNCHANGED <<campusVars, authVars, clientVars, otherVars>>
    \/ \E i \in Identities : GenerateAccessTokenCall(i) /\ UNCHANGED <<campusVars, authVars, clientVars, otherVars>>
    \/ \E path \in Paths :
        \E header \in BadHeaders \cup {Bearer(tok) : tok \in RequestTokens} :
           AuthRequest(path, header) /\ UNCHANGED <<campusVars, jwtVars, clientVars, otherVars>>
    \/ CheckHeader /\ UNCHANGED <<campusVars, jwtVars, clientVars, otherVars>>
    \/ Case1 /\ UNCHANGED <<campusVars, jwtVars, clientVars, otherVars>>
    \/ \E up \in BOOLEAN : Case2(up) /\ UNCHANGED <<campusVars, jwtVars, clientVars, otherVars>>
    \/ Case3 /\ UNCHANGED <<campusVars, jwtVars, clientVars, otherVars>>

InitShort ==
    /\ InitCampus
    /\ InitJwt(ShortEnv)
    /\ InitAuth
    /\ InitClients
    /\ InitRoutes
    /\ InitRefresh(DefaultRefreshExpiry)

SpecAuth == InitShort /\ [][NextAuth]_vars

\* ------------------------------------------- the handlers' clients

\* the upstream's answers to the logins of the handlers' clients: a failure,
\* a token without exp claim, a token that expires inside the safety margin
ClientResponses ==
    {r \in AuthResponses({NoExp, now + ClockStep}) : r.transport => r.token}

\* the cache after getNewToken returned the n-th token, from response r
Stored(n, r) ==
    [AuthToken |-> [id |-> n, exp |-> extractExpiryFromToken(r.exp, now)],
     RefreshToken |-> n,
     ExpiresAt |-> extractExpiryFromToken(r.exp, now)]

\* NewCampusClient's goroutine for the client of handler h: one login, whose
\* token is stored in the cache of that client
ClientPrefetch(h, r) ==
    /\ h \notin warmed
    /\ warmed' = warmed \cup {h}
    /\ IF getNewTokenErr(r) = None
       THEN /\ issued < MaxLogins
            /\ issued' = issued + 1
            /\ clients' = [clients EXCEPT ![h] = Stored(issued + 1, r)]
       ELSE UNCHANGED <<issued, clients>>
    /\ UNCHANGED <<now, cache, lock, pc, locals, newToken, counters, result,
                   calls, lastCall>>

\* one outbound call of handler h through its client, RoundTrip from start
\* to return: a login r1 when its cache is stale, the request answered s1,
\* and after a 401 a second login r2 and the request again
HandlerRoundTrip(h, r1, s1, r2) ==
    LET c == clients[h]
        isStale == tokenIsExpiredOrMissing(c.AuthToken, c.ExpiresAt, now)
        ok1 == getNewTokenErr(r1) = None
        n1 == IF isStale /\ ok1 THEN issued + 1 ELSE issued
        c1 == IF isStale /\ ok1 THEN Stored(n1, r1) ELSE c
        sent == ~isStale \/ ok1
        retry == sent /\ s1 = "401"
        ok2 == getNewTokenErr(r2) = None
        n2 == IF retry /\ ok2 THEN n1 + 1 ELSE n1
        c2 == IF retry /\ ok2 THEN Stored(n2, r2) ELSE c1
    IN  /\ n2 <= MaxLogins
        /\ issued' = n2
        /\ clients' = [clients EXCEPT ![h] = c2]
        /\ lastCall' =
              [handler |-> h,
               stale |-> isStale,
               logins |-> (IF isStale THEN 1 ELSE 0) + (IF retry THEN 1 ELSE 0),
               unauthorized |-> IF retry THEN 1 ELSE 0,
               token |-> IF sent THEN c1.AuthToken.id ELSE 0]
        /\ UNCHANGED <<now, cache, lock, pc, locals, newToken, counters,
                       result, calls, warmed>>

NextClients ==
    \/ Tick /\ UNCHANGED <<jwtVars, authVars, clientVars, otherVars>>
    \/ \E h \in Handlers : \E r \in ClientResponses :
           ClientPrefetch(h, r) /\ UNCHANGED <<jwtVars, authVars, otherVars>>
    \/ \E h \in Handlers : \E r1, r2 \in ClientResponses :
       \E s1 \in CampusResponses :
           HandlerRoundTrip(h, r1, s1, r2) /\ UNCHANGED <<jwtVars, authVars, otherVars>>

SpecClients == Init /\ [][NextClients]_vars

\* ------------------------------------------- route classes compared

\* an access token generateAdminTokens makes for the user with this id: HS256,
\* claims uid and exp, signed with JWT_SECRET_KEY
AdminToken(id, key) ==
    Jwt("HS256", key, Number(Second(id)), ZeroIdentity,
        Number(Second(AdminExpiry)), Absent)

\* the tokens presented on both route classes: the session token, admin
\* tokens signed with a key of their own or with the secret of the session
\* tokens, a campus token, a string that is no token
RouteTokens ==
    (IF session.err = ErrNil THEN {session.token} ELSE {})
    \cup {AdminToken(1, CampusKey), AdminToken(1, env.JWT_SECRET),
          Jwt("HS256", CampusKey, Number(4), ZeroIdentity, Number(2), Absent),
          Garbage(MinTokenLen)}

\* a path of each class
RoutePaths ==
    { <<"api", "v1", "mahasiswa", "by-nim">>,
      <<"api", "v1", "lecturer", "profile">> }

\* the answer a step of the middleware ends with is kept, with the request
\* and the instant
Answered ==
    last' = IF apc' = "idle"
            THEN [path |-> request.path, token |-> request.header.token,
                  at |-> clock, next |-> resp'.next, status |-> resp'.status]
            ELSE last

\* requests with the same tokens on paths of both classes
NextRoutes ==
    \/ clock < MaxAuthTicks /\ ClockAdvance(1) /\ UNCHANGED <<campusVars, authVars, clientVars, otherVars>>
    \/ \E i \in Identities : GenerateAccessTokenCall(i) /\ UNCHANGED <<campusVars, authVars, clientVars, otherVars>>
    \/ \E path \in RoutePaths : \E tok \in RouteTokens :
           AuthRequest(path, Bearer(tok)) /\ UNCHANGED <<campusVars, jwtVars, clientVars, otherVars>>
    \/ CheckHeader /\ Answered /\ UNCHANGED <<campusVars, jwtVars, clientVars, expiryVars, refreshVars>>
    \/ Case1 /\ Answered /\ UNCHANGED <<campusVars, jwtVars, clientVars, expiryVars, refreshVars>>
    \/ \E up \in BOOLEAN : Case2(up) /\ Answered /\ UNCHANGED <<campusVars, jwtVars, clientVars, expiryVars, refreshVars>>
    \/ Case3 /\ Answered /\ UNCHANGED <<campusVars, jwtVars, clientVars, expiryVars, refreshVars>>

SpecRoutes == InitShort /\ [][NextRoutes]_vars

\* ------------------------------------ expiry of an acquired token

\* the tokens the upstream may answer a login with
Bearers ==
    { Bearer3(parts, base64, json, exp) :
        parts \in 1..4, base64 \in BOOLEAN, json \in BOOLEAN,
        exp \in { Absent, Number(0), Number(Second(SafetyMargin)),
                  Number(Second(SafetyMargin) + 1), Number(-3),
                  String(<<"6", "0">>), Other } }

\* extractExpiryFromToken that rounds a fractional exp up
extractExpiryCeil(b, t) ==
    IF b.parts # 3 \/ ~ b.base64 \/ ~ b.json \/ b.exp.type # "number"
    THEN t + DefaultExpiry
    ELSE IntOf(b.exp.num + 1)

\* extractExpiryFromToken on the token string itself, at instant t (seconds)
extractExpiry(b, t) ==
    IF b.parts # 3 THEN t + DefaultExpiry
    ELSE IF ~ b.base64 THEN t + DefaultExpiry
    ELSE IF ~ b.json THEN t + DefaultExpiry
    ELSE IF b.exp.type = "number" THEN IntOf(b.exp.num)
    ELSE t + DefaultExpiry

\* getNewToken returns the token b with the expiry extracted from it
Acquire(b) ==
    /\ acquired' = [bearer |-> b, at |-> now, expiryTime |-> extractExpiry(b, now)]
    /\ UNCHANGED <<campusVars, jwtVars, authVars, clientVars, routeVars, refreshVars>>

NextExpiry ==
    \/ Tick /\ UNCHANGED <<jwtVars, authVars, clientVars, otherVars>>
    \/ \E b \in Bearers : Acquire(b)

SpecExpiry == Init /\ [][NextExpiry]_vars

\* ------------------------------------------ refresh token rotation

\* the rows of the tokens table with the token value v
RowsOf(v) == { row \in tokens : row.token = v }

\* Login: CreateToken stores a freshly generated value for user u
LoginCall(u) ==
    /\ minted < MaxTokens
    /\ minted' = minted + 1
    /\ tokens' = tokens \cup
           {[token |-> minted + 1, user |-> u, exp |-> now + refreshExpiry]}
    /\ UNCHANGED <<refreshExpiry, rpc, held, removed, outcome, uses>>

\* RefreshToken up to GetTokenByValue: no row, an expired row (deleted),
\* or the row
RefreshGet(p, v) ==
    /\ rpc[p] = "idle"
    /\ UNCHANGED removed
    /\ IF RowsOf(v) = {}
       THEN /\ rpc' = [rpc EXCEPT ![p] = "done"]
            /\ outcome' = [outcome EXCEPT ![p] = "Invalid refresh token"]
            /\ held' = [held EXCEPT ![p] = NoRow]
            /\ UNCHANGED tokens
       ELSE LET row == CHOOSE r \in RowsOf(v) : TRUE
            IN  IF row.exp < now
                THEN /\ tokens' = tokens \ {row}
                     /\ rpc' = [rpc EXCEPT ![p] = "done"]
                     /\ outcome' = [outcome EXCEPT ![p] = "Invalid refresh token"]
                     /\ held' = [held EXCEPT ![p] = NoRow]
                ELSE /\ rpc' = [rpc EXCEPT ![p] = "got"]
                     /\ outcome' = [outcome EXCEPT ![p] = ""]
                     /\ held' = [held EXCEPT ![p] = row]
                     /\ UNCHANGED tokens
    /\ UNCHANGED <<minted, refreshExpiry, uses>>

\* RefreshToken from its own expiry check to generateRefreshToken; found
\* tells whether the user and profile lookups and the generators succeed
RefreshUser(p, found) ==
    /\ rpc[p] = "got"
    /\ IF held[p].exp < now
       THEN /\ tokens' = tokens \ RowsOf(held[p].token)
            /\ rpc' = [rpc EXCEPT ![p] = "done"]
            /\ outcome' = [outcome EXCEPT ![p] = "Refresh token expired"]
       ELSE IF ~ found
       THEN /\ rpc' = [rpc EXCEPT ![p] = "done"]
            /\ outcome' = [outcome EXCEPT ![p] = "User not found"]
            /\ UNCHANGED tokens
       ELSE /\ rpc' = [rpc EXCEPT ![p] = "ready"]
            /\ UNCHANGED <<tokens, outcome>>
    /\ UNCHANGED <<minted, refreshExpiry, held, removed, uses>>

\* DeleteToken that does not look at RowsAffected
RefreshDeleteAnyRows(p, dbOk) ==
    /\ rpc[p] = "ready"
    /\ IF ~ dbOk
       THEN /\ rpc' = [rpc EXCEPT ![p] = "done"]
            /\ outcome' = [outcome EXCEPT ![p] = "Failed to delete old refresh token"]
            /\ UNCHANGED <<tokens, removed>>
       ELSE /\ tokens' = tokens \ RowsOf(held[p].token)
            /\ removed' = [removed EXCEPT ![p] = RowsOf(held[p].token) # {}]
            /\ rpc' = [rpc EXCEPT ![p] = "deleted"]
            /\ UNCHANGED outcome
    /\ UNCHANGED <<minted, refreshExpiry, held, uses>>

\* RefreshToken: DeleteToken(token.Token); dbOk tells whether the
\* statement ran, and a statement that removed no row is ErrTokenNotFound
RefreshDelete(p, dbOk) ==
    /\ rpc[p] = "ready"
    /\ IF ~ dbOk \/ RowsOf(held[p].token) = {}
       THEN /\ rpc' = [rpc EXCEPT ![p] = "done"]
            /\ outcome' = [outcome EXCEPT ![p] = "Failed to delete old refresh token"]
            /\ UNCHANGED <<tokens, removed>>
       ELSE /\ tokens' = tokens \ RowsOf(held[p].token)
            /\ removed' = [removed EXCEPT ![p] = TRUE]
            /\ rpc' = [rpc EXCEPT ![p] = "deleted"]
            /\ UNCHANGED outcome
    /\ UNCHANGED <<minted, refreshExpiry, held, uses>>

\* RefreshToken: CreateToken for the new value, then the 200 response
RefreshCreate(p, dbOk) ==
    /\ rpc[p] = "deleted"
    /\ minted < MaxTokens
    /\ minted' = minted + 1
    /\ rpc' = [rpc EXCEPT ![p] = "done"]
    /\ IF ~ dbOk
       THEN /\ outcome' = [outcome EXCEPT ![p] = "Failed to save refresh token"]
            /\ UNCHANGED <<tokens, uses>>
       ELSE /\ tokens' = tokens \cup
                   {[token |-> minted + 1, user |-> held[p].user,
                     exp |-> now + refreshExpiry]}
            /\ outcome' = [outcome EXCEPT ![p] = "Token refreshed successfully"]
            /\ uses' = [uses EXCEPT ![held[p].token] = @ + 1]
    /\ UNCHANGED <<refreshExpiry, held, removed>>

\* the request has been answered; the next one begins
RefreshReturn(p) ==
    /\ rpc[p] = "done"
    /\ rpc' = [rpc EXCEPT ![p] = "idle"]
    /\ held' = [held EXCEPT ![p] = NoRow]
    /\ removed' = [removed EXCEPT ![p] = FALSE]
    /\ outcome' = [outcome EXCEPT ![p] = ""]
    /\ UNCHANGED <<tokens, minted, refreshExpiry, uses>>

\* Logout: DeleteToken(input.RefreshToken), 200 when it removed a row
LogoutCall(v, dbOk) ==
    /\ IF dbOk /\ RowsOf(v) # {}
       THEN /\ tokens' = tokens \ RowsOf(v)
            /\ uses' = [uses EXCEPT ![v] = @ + 1]
       ELSE UNCHANGED <<tokens, uses>>
    /\ UNCHANGED <<minted, refreshExpiry, rpc, held, removed, outcome>>

NextRefresh ==
    \/ Tick /\ UNCHANGED <<jwtVars, authVars, clientVars, otherVars>>
    \/ \E u \in Accounts : LoginCall(u) /\ UNCHANGED <<campusVars, jwtVars, authVars, clientVars, routeVars, expiryVars>>
    \/ \E p \in Refreshers : \E v \in TokenValues :
           RefreshGet(p, v) /\ UNCHANGED <<campusVars, jwtVars, authVars, clientVars, routeVars, expiryVars>>
    \/ \E p \in Refreshers : \E found \in BOOLEAN :
           RefreshUser(p, found) /\ UNCHANGED <<campusVars, jwtVars, authVars, clientVars, routeVars, expiryVars>>
    \/ \E p \in Refreshers : \E dbOk \in BOOLEAN :
           RefreshDelete(p, dbOk) /\ UNCHANGED <<campusVars, jwtVars, authVars, clientVars, routeVars, expiryVars>>
    \/ \E p \in Refreshers : \E dbOk \in BOOLEAN :
           RefreshCreate(p, dbOk) /\ UNCHANGED <<campusVars, jwtVars, authVars, clientVars, routeVars, expiryVars>>
    \/ \E p \in Refreshers : RefreshReturn(p) /\ UNCHANGED <<campusVars, jwtVars, authVars, clientVars, routeVars, expiryVars>>
    \/ \E v \in TokenValues : \E dbOk \in BOOLEAN :
           LogoutCall(v, dbOk) /\ UNCHANGED <<campusVars, jwtVars, authVars, clientVars, routeVars, expiryVars>>

SpecRefresh ==
    (\E d \in RefreshExpiries : InitCampus /\ InitJwt(DefaultEnv) /\ InitAuth /\ InitClients /\ InitRoutes /\ InitRefresh(d)) /\ [][NextRefresh]_vars

\* ------------------------------------------------------------ claims

\* p holds the write lock between Lock and Unlock
Writing(p) == pc[p] \in {"writeRefreshToken", "writeExpiresAt"}
\* p waits for the upstream: a login call or a campus call is in progress
InIO(p) == pc[p] \in {"authWait", "respWait", "retryWait"}
\* c has tested the credential it read
PastCheck(c) == pc[c] \in {"authWait", "Lock", "writeRefreshToken",
                           "writeExpiresAt", "respWait", "retryWait"}
\* the credential c read is empty or within the safety margin of its expiry
ReadStale(c) == refreshToken[c] = 0 \/ now + SafetyMargin > expiresAt[c]
\* getNewToken calls c made because of a 401
Forced(c) == logins[c] - (IF stale[c] THEN 1 ELSE 0)
\* the three values are the empty credential or come from one login response
OneResponse(tok, rt, e) ==
    \/ tok = EmptyToken /\ rt = 0 /\ e = 0
    \/ tok.id \in 1..issued /\ rt = tok.id /\ e = tok.exp

\* C1, as claimed: of the calls in progress that read the same stale
\* credential, only one has made a login call to the upstream.
C1_OneLoginPerRace ==
    \A c, d \in Callers :
        (c # d /\ PastCheck(c) /\ PastCheck(d) /\ ReadStale(c) /\ ReadStale(d)
              /\ refreshToken[c] = refreshToken[d])
            => ~(logins[c] >= 1 /\ logins[d] >= 1)

\* C1, amended: every call that finds the credential it read empty or within
\* the safety margin makes its own login call, exactly one, so N racing calls
\* make N logins; a call that finds it fresh makes none (before any 401).
C1_EachStaleCallLogsIn ==
    \A c \in Callers :
        PastCheck(c) =>
            logins[c] = (IF ReadStale(c) THEN 1 ELSE 0)
                        + (IF unauthorized[c] >= 1 THEN 1 ELSE 0)

\* two calls that read the same token within its safety margin both have a
\* login call in progress
C1_Witness ==
    \E c, d \in Callers :
        /\ c # d /\ pc[c] = "authWait" /\ pc[d] = "authWait"
        /\ unauthorized[c] = 0 /\ unauthorized[d] = 0
        /\ refreshToken[c] >= 1 /\ refreshToken[c] = refreshToken[d]
        /\ ReadStale(c) /\ ReadStale(d)

\* C2: the (access token, refresh token, expires-at) triple a call has read
\* is the initial empty triple or comes whole from one login response, and so
\* is the cache whenever nobody is writing it.
C2_NoTornCredential ==
    /\ \A c \in Callers :
          pc[c] = "check" => OneResponse(token[c], refreshToken[c], expiresAt[c])
    /\ writer = None => OneResponse(cache.AuthToken, cache.RefreshToken, cache.ExpiresAt)

\* a call has read a whole credential that a later store is already replacing
C2_Witness ==
    \E c \in Callers :
        /\ pc[c] = "check" /\ token[c].id >= 1
        /\ writer # None /\ cache.AuthToken.id > token[c].id

\* C3, as claimed: a call whose first send returned 401 ends having made one
\* forced login call and two sends.
C3_OneRefreshOneResend ==
    [][\A c \in Callers :
          (unauthorized[c] >= 1 /\ pc[c] # "idle" /\ pc'[c] = "idle")
              => (Forced(c) = 1 /\ sends[c] = 2)]_vars

\* C3, amended: after a 401 on the first send the call makes exactly one
\* forced login call; if it succeeds the request is resent once with the new
\* token and whatever the resend returns, a second 401 included, goes to the
\* caller; if it fails the call returns the error without a resend.
C3_OneRefreshThenResendOrError ==
    [][\A c \in Callers :
          unauthorized[c] >= 1 =>
              /\ Forced(c) = 1
              /\ pc[c] \in {"authWait", "Lock", "writeRefreshToken", "writeExpiresAt"}
                    => sends[c] = 1
              /\ (pc[c] = "authWait" /\ pc'[c] = "idle")
                    => result'[c] = "failed to refresh authentication token"
              /\ pc[c] = "retryWait"
                    => /\ sends[c] = 2
                       /\ newToken[c].id \notin {0, token[c].id}
                       /\ pc'[c] \in {"retryWait", "idle"}
                       /\ pc'[c] = "idle" => result'[c] \in CampusResponses]_vars

\* a resend returned 401 and the call gave it to its caller
C3_Witness ==
    \E c \in Callers : pc[c] = "idle" /\ result[c] = "401"

\* C4, as claimed: while a call that received a 401 waits for its forced
\* login, the cache does not hold the rejected token and no other call has
\* sent it.
C4_RejectedTokenDiscarded ==
    \A c \in Callers :
        (unauthorized[c] >= 1 /\ pc[c] = "authWait") =>
            /\ cache.AuthToken # token[c]
            /\ \A d \in Callers \ {c} : pc[d] = "respWait" => token[d] # token[c]

\* C4, amended: a 401 leaves the cache as it is; the cache changes only in
\* the store that follows a successful login, so it keeps the rejected token
\* until then, also when the forced login fails; only the call that received
\* the 401 does not send the rejected token again.
C4_RejectedTokenKeptUntilStore ==
    [][/\ \A c \in Callers :
             /\ (pc[c] = "respWait" /\ pc'[c] = "authWait") => cache' = cache
             /\ (pc[c] = "authWait" /\ unauthorized[c] >= 1 /\ pc'[c] = "idle")
                   => cache' = cache
             /\ pc[c] = "retryWait" => newToken[c].id \notin {0, token[c].id}
       /\ cache' # cache =>
             \E p \in Procs :
                 /\ pc[p] \in {"Lock", "writeRefreshToken", "writeExpiresAt"}
                 /\ pc'[p] # pc[p]
                 /\ newToken[p].id \in 1..issued]_vars

\* the cache still holds the token a 401 rejected, and another call has sent
\* it, while the forced login is in progress
C4_Witness ==
    \E c \in Callers :
        /\ unauthorized[c] >= 1 /\ pc[c] = "authWait"
        /\ cache.AuthToken = token[c]
        /\ \E d \in Callers \ {c} : pc[d] = "respWait" /\ token[d] = token[c]

\* C5: a call that reads a non-empty token expiring more than 30 s from now
\* makes no login call and sends the request with that token; unless the
\* answer is 401 it never stores to the cache.
C5_FreshTokenReused ==
    [][\A c \in Callers :
          /\ (pc[c] = "check" /\ pc'[c] # "check" /\ token[c].id # 0
                  /\ expiresAt[c] > now + SafetyMargin)
                => /\ pc'[c] = "respWait" /\ ~stale'[c]
                   /\ logins'[c] = 0 /\ sends'[c] = 1
                   /\ token'[c] = token[c] /\ token[c].id = refreshToken[c]
                   /\ cache' = cache
          /\ (pc[c] = "respWait" /\ ~stale[c])
                => /\ logins[c] = 0 /\ stores[c] = 0
                   /\ pc'[c] = "idle" => cache' = cache]_vars

\* a request is in flight with a cached token that expires in more than 30 s
C5_Witness ==
    \E c \in Callers :
        /\ pc[c] = "respWait" /\ ~stale[c] /\ token[c].id >= 1
        /\ expiresAt[c] > now + SafetyMargin /\ cache.AuthToken = token[c]

\* C6, as claimed: a non-empty credential is stale exactly when
\* now + 30 s >= expires-at.
C6_StaleAtBoundary ==
    [][\A c \in Callers :
          (pc[c] = "check" /\ pc'[c] # "check" /\ token[c].id # 0)
              => (stale'[c] <=> now + SafetyMargin >= expiresAt[c])]_vars

\* C6, amended: a credential is stale exactly when it is empty or
\* now + 30 s > expires-at; at now + 30 s = expires-at it is fresh.
C6_FreshAtBoundary ==
    [][\A c \in Callers :
          (pc[c] = "check" /\ pc'[c] # "check")
              => /\ stale'[c] <=> (token[c].id = 0 \/ now + SafetyMargin > expiresAt[c])
                 /\ pc'[c] = IF stale'[c] THEN "authWait" ELSE "respWait"]_vars

\* a cached token with expires-at = now + 30 s was sent without a login
C6_Witness ==
    \E c \in Callers :
        /\ pc[c] = "respWait" /\ ~stale[c] /\ logins[c] = 0
        /\ token[c].id >= 1 /\ expiresAt[c] = now + SafetyMargin

\* C7, as claimed: at most one upstream login call is in progress.
C7_OneLoginInProgress ==
    Cardinality({p \in Procs : pc[p] = "authWait"}) <= 1

\* C7, amended: the store of a new credential is made under the exclusive
\* write lock, so stores serialize: at most one goroutine is between Lock and
\* Unlock and no reader holds the lock then.  (The login calls are made
\* outside the lock and overlap.)
C7_StoresSerialize ==
    /\ Cardinality({p \in Procs : Writing(p)}) <= 1
    /\ \A p \in Procs : Writing(p) <=> writer = p
    /\ writer # None => readers = {}
    /\ \A c \in Callers : c \in readers <=> pc[c] \in {"readRefreshToken", "readExpiresAt"}

\* one goroutine stores while another, its login done, waits for the lock
C7_Witness ==
    \E p, q \in Procs : p # q /\ Writing(p) /\ pc[q] = "Lock"

\* C8: no goroutine holds the cache's lock, shared or exclusive, while its
\* login call or campus call is in progress; whoever holds it is at a field
\* read or write.
C8_NoLockAcrossIO ==
    /\ \A p \in Procs : InIO(p) => (writer # p /\ p \notin readers)
    /\ writer # None => ~InIO(writer)
    /\ \A c \in readers : ~InIO(c)

\* a call reads the cached token while two other goroutines wait for the
\* upstream
C8_Witness ==
    \E c \in Callers :
        /\ c \in readers /\ token[c].id >= 1
        /\ \A p \in Procs \ {c} : InIO(p)

\* C9: when the login made for a stale credential fails, RoundTrip returns
\* the error after that one login call, having sent nothing and stored
\* nothing; only a token of a successful login is stored; the next call that
\* reads a stale credential calls getNewToken again.
C9_AuthFailurePropagates ==
    [][\A c \in Callers :
          /\ (pc[c] = "authWait" /\ unauthorized[c] = 0)
                => /\ logins[c] = 1 /\ sends[c] = 0 /\ stores[c] = 0
                   /\ pc'[c] = "idle"
                         => /\ cache' = cache
                            /\ result'[c] = "failed to get authentication token"
          /\ pc[c] \in {"Lock", "writeRefreshToken", "writeExpiresAt"}
                => newToken[c].id >= 1
          /\ (pc[c] = "check" /\ pc'[c] # "check"
                  /\ (token[c].id = 0 \/ now + SafetyMargin > expiresAt[c]))
                => (pc'[c] = "authWait" /\ logins'[c] = 1)]_vars

\* after a call returned the login error, the next call's login is in progress
C9_Witness ==
    \E c \in Callers :
        /\ result[c] = "failed to get authentication token"
        /\ pc[c] = "authWait" /\ unauthorized[c] = 0 /\ logins[c] = 1

\* the bearer token of the request c has just sent
Carried(c) == IF unauthorized[c] = 0 THEN token[c] ELSE newToken[c]

\* C10: every request sent to the campus system carries a non-empty token
\* whose recorded expires-at is later than the moment of the send.
C10_SentTokenValid ==
    [][\A c \in Callers :
          sends'[c] = sends[c] + 1
              => (Carried(c)'.id # 0 /\ Carried(c)'.exp > now)]_vars

\* claim helpers: a call of the campus validator has just returned
CampusChecked == checked.fn = "ValidateCampusToken"
\* the same claims under another signing method and key
Resigned(tok, sg) == [tok EXCEPT !.alg = sg[1], !.key = sg[2]]

\* C18: the result of ValidateCampusToken depends on the claims and the
\* clock only: the same claims under any other signature, key or signing
\* method give the same user id or the same error.
C18_SignatureIndependent ==
    (CampusChecked /\ checked.token.form = "jwt") =>
        \A sg \in CampusSignatures :
            /\ ValidateCampusToken(Resigned(checked.token, sg), clock).err
                   = checked.err
            /\ ValidateCampusToken(Resigned(checked.token, sg), clock).uid
                   = checked.uid

\* claim helpers: a uid that is a number or a string of decimal digits; an
\* exp claim, of any JSON type, naming an instant before t
RECURSIVE AllDigits(_)
AllDigits(chars) ==
    chars = <<>> \/ (DigitVal(Head(chars)) >= 0 /\ AllDigits(Tail(chars)))
UidParseable(tok) ==
    \/ tok.uid.type = "number"
    \/ tok.uid.type = "string" /\ tok.uid.str # <<>> /\ AllDigits(tok.uid.str)
ExpPassed(tok, t) ==
    \/ tok.exp.type = "number" /\ tok.exp.num < t
    \/ /\ tok.exp.type = "string" /\ tok.exp.str # <<>> /\ AllDigits(tok.exp.str)
       /\ Second(ScanDigits(tok.exp.str, 0, 0).value) < t

\* C19: invalid-token whenever the uid is absent or unparseable,
\* expired-token for every token whose expiry claim is in the past, a user
\* id only when the uid is parseable and no present expiry has passed.
C19_InvalidOrExpired ==
    CampusChecked =>
        /\ ~ UidParseable(checked.token) => checked.err = ErrInvalidToken
        /\ ExpPassed(checked.token, clock) => checked.err = ErrExpiredToken
        /\ checked.err = ErrNil =>
               UidParseable(checked.token) /\ ~ ExpPassed(checked.token, clock)

\* claim helpers: the middleware has answered the request; the request has
\* a Bearer header with a token of plausible length; its path needs
\* authentication and is not a mahasiswa or assistant path
Done == apc = "idle" /\ request.path # <<>>
HeaderOk ==
    /\ request.header.present
    /\ request.header.parts = 2 /\ request.header.scheme = "Bearer"
    /\ request.header.token.len >= MinTokenLen
Protected == ~ HasPrefix(request.path, HealthPrefix)
GenericProtected == Protected /\ ~ IsFlexible(request.path)
Strategies == [i \in 1..Len(attempts) |-> attempts[i].strategy]
\* a token with a numeric uid and no expiry before t
UpstreamShaped(tok, t) ==
    tok.form = "jwt" /\ UidParseable(tok) /\ ~ ExpPassed(tok, t)

\* C12: on a mahasiswa or assistant path the campus validation is tried
\* first and the local one only after it failed; an unexpired token with a
\* numeric uid is accepted there without any store lookup.
C12_FlexibleUpstreamFirst ==
    (Protected /\ IsFlexible(request.path)) =>
        /\ Strategies \in {<<>>, <<"campus">>, <<"campus", "local">>}
        /\ Len(attempts) = 2 => attempts[1].err # ErrNil
        /\ (Done /\ HeaderOk /\ UpstreamShaped(request.header.token, clock))
               => /\ resp = PassOn
                  /\ ctx.campus_authenticated
                  /\ Strategies = <<"campus">>
                  /\ lookups = 0

\* C13: on a generic-protected path the local validation is tried first,
\* the campus validation at most once and only after the local one failed.
C13_GenericLocalFirst ==
    GenericProtected =>
        /\ Strategies \in {<<>>, <<"local">>, <<"local", "campus">>}
        /\ Len(attempts) = 2 => attempts[1].err # ErrNil

\* both strategies were tried, in that order, on a generic-protected path
C13_Witness ==
    /\ Done /\ GenericProtected
    /\ Strategies = <<"local", "campus">>
    /\ attempts[1].err # ErrNil

\* C14 as stated: a request is rejected only after both strategies were
\* tried; a token that verifies locally but whose store lookup fails still
\* gets the campus validation.
C14_FallbackOnStoreError ==
    (Done /\ HeaderOk /\ GenericProtected /\ resp # PassOn) =>
        Strategies = <<"local", "campus">>

\* C14, amended: the second strategy is tried exactly when the validation
\* of the token by the first fails; a token that verifies locally ends the
\* request in CASE 2, accepted or rejected by the store lookup, and the
\* generic rejection comes only after both validations failed.
C14_FallbackOnTokenFailure ==
    (Done /\ HeaderOk /\ Protected) =>
        /\ Len(attempts) >= 1
        /\ attempts[1].err # ErrNil <=> Len(attempts) = 2
        /\ attempts[Len(attempts)].strategy = "local"
              /\ attempts[Len(attempts)].err = ErrNil
              => /\ lookups = 1
                 /\ \/ resp = PassOn
                    \/ resp = AbortWith(StatusUnauthorized, "User not found")
                    \/ resp = AbortWith(StatusInternalServerError,
                                        "Database error")
        /\ resp = AbortWith(StatusUnauthorized, "Invalid or expired token")
              <=> \A i \in 1..Len(attempts) : attempts[i].err # ErrNil

\* a token verified locally, the store failed, the campus validation was
\* not tried
C14_Witness ==
    /\ Done /\ HeaderOk /\ GenericProtected
    /\ Strategies = <<"local">>
    /\ attempts[1].err = ErrNil
    /\ resp = AbortWith(StatusInternalServerError, "Database error")

\* C15 as stated: any two rejections carry the same status and the same
\* message.
C15_UniformRejection ==
    [][(resp.status = StatusUnauthorized /\ resp'.status = StatusUnauthorized)
          => resp'.error = resp.error]_vars

\* C15, amended: a rejection has status 401, or 500 after a store failure,
\* and its message names the check that failed; the generic message is
\* that of a token both validations refused.
C15_RejectionByCause ==
    (Done /\ Protected /\ resp # PassOn) =>
        IF ~ request.header.present
        THEN resp = AbortWith(StatusUnauthorized, "Authorization header is missing")
        ELSE IF request.header.parts # 2 \/ request.header.scheme # "Bearer"
        THEN resp = AbortWith(StatusUnauthorized,
                              "Invalid authorization header format")
        ELSE IF request.header.token.len < MinTokenLen
        THEN resp = AbortWith(StatusUnauthorized, "Invalid token")
        ELSE IF attempts[Len(attempts)].err = ErrNil
        THEN \/ resp = AbortWith(StatusUnauthorized, "User not found")
             \/ resp = AbortWith(StatusInternalServerError, "Database error")
        ELSE resp = AbortWith(StatusUnauthorized, "Invalid or expired token")

\* a request without a header was rejected after one with a bad token
C15_Witness ==
    /\ Done /\ Protected
    /\ ~ request.header.present
    /\ resp = AbortWith(StatusUnauthorized, "Authorization header is missing")

\* claim helpers: a token the local issuer signed; the row of user u
LocallyIssued(tok) ==
    tok.form = "jwt" /\ tok.alg = "HS256" /\ tok.key = env.JWT_SECRET
RowOf(u) == CHOOSE row \in Users : row.ID = u

\* C16: a request bearing an unexpired locally-issued token for u gets the
\* identity of the store's row of u, and is rejected as unauthorized when
\* the store has no such row.
C16_LocalIdentityFromStore ==
    (Done /\ HeaderOk /\ Protected /\ LocallyIssued(request.header.token)
          /\ clock < DateOf(request.header.token.exp)) =>
        LET u == request.header.token.ident.user_id
        IN  \/ resp = AbortWith(StatusInternalServerError, "Database error")
            \/ /\ \E row \in Users : row.ID = u
               /\ resp = PassOn
               /\ ctx = LocalCtx(RowOf(u))
            \/ /\ ~ \E row \in Users : row.ID = u
               /\ resp = AbortWith(StatusUnauthorized, "User not found")
               /\ ctx = EmptyCtx

\* a session token whose claims differ from the row was presented, and the
\* identity is the row's
C16_Witness ==
    /\ Done /\ HeaderOk /\ Protected
    /\ LocallyIssued(request.header.token)
    /\ clock < DateOf(request.header.token.exp)
    /\ resp = PassOn
    /\ ctx.user_id = request.header.token.ident.user_id
    /\ ctx.user.Email # request.header.token.ident.email

\* the keys that carry a local user
LocalKeys ==
    {"user_id", "user_type", "email", "first_name", "middle_name", "last_name"}

\* C17: an identity resolved by the campus validation carries the campus
\* user id only: none of the keys of a local user is set, and no store
\* lookup was made.
C17_UpstreamIdentityOnly ==
    ctx.campus_authenticated =>
        /\ ctx.keys \cap LocalKeys = {}
        /\ lookups = 0

\* claim helpers: ValidateToken has just returned for the session token
SessionChecked ==
    /\ checked.fn = "ValidateToken"
    /\ session.err = ErrNil
    /\ checked.token = session.token

C11_OneCachePerProcess ==
    /\ \A g, h \in Handlers : clients[g] = clients[h]
    /\ \A g \in Handlers :
          (lastCall.stale /\ lastCall.token # 0 /\ g # lastCall.handler) =>
              ~ /\ clients[g].AuthToken.id # 0
                /\ clients[g].AuthToken.id < lastCall.token
                /\ ~ tokenIsExpiredOrMissing(clients[g].AuthToken,
                                             clients[g].ExpiresAt, now)

\* a handler logged in although another handler's client held a fresh
\* credential
C11_SecondLogin ==
    \E g \in Handlers :
        /\ lastCall.stale /\ lastCall.token # 0 /\ g # lastCall.handler
        /\ clients[g].AuthToken.id # 0
        /\ clients[g].AuthToken.id < lastCall.token
        /\ ~ tokenIsExpiredOrMissing(clients[g].AuthToken,
                                     clients[g].ExpiresAt, now)

\* claim helpers: ValidateToken has just returned for an HMAC token signed
\* with a secret that is not the configured JWT_SECRET
ForeignChecked ==
    /\ checked.fn = "ValidateToken"
    /\ checked.token.form = "jwt"
    /\ checked.token.alg \in HMACMethods
    /\ env.JWT_SECRET # ""
    /\ checked.token.key # env.JWT_SECRET

\* C21: a token signed with another secret fails ValidateToken with the
\* invalid-token error whatever its claims are, its expiry being in the past
\* included: it is not reported expired and not accepted.
C21_ForeignSecretInvalid ==
    ForeignChecked => checked.err = ErrInvalidToken

\* a token signed with another secret, its expiry passed, was refused as
\* invalid
C21_Witness ==
    /\ ForeignChecked
    /\ checked.token.exp.type = "number"
    /\ clock > DateOf(checked.token.exp)
    /\ checked.err = ErrInvalidToken

\* claim helpers: the request bears a token the local issuer signed, whose
\* expiry has been reached
ExpiredLocal ==
    /\ Protected /\ HeaderOk
    /\ LocallyIssued(request.header.token)
    /\ request.header.token.exp.type = "number"
    /\ ~ (clock < DateOf(request.header.token.exp))

\* C22: the middleware never passes a request on whose locally signed token
\* is expired at the instant of its answer, on a path of either class and
\* also after the campus validation was tried.
C22_ExpiredLocalRejected ==
    [][(apc # "idle" /\ apc' = "idle" /\ ExpiredLocal) =>
           /\ resp' = AbortWith(StatusUnauthorized, "Invalid or expired token")
           /\ ctx' = EmptyCtx]_vars

\* an expired session token was refused on a lecturer path after the local
\* and the campus validation
C22_Witness ==
    /\ Done /\ ExpiredLocal /\ GenericProtected
    /\ Strategies = <<"local", "campus">>
    /\ attempts[1].err = ErrExpiredToken
    /\ resp = AbortWith(StatusUnauthorized, "Invalid or expired token")

\* C24: a request on a path that needs authentication whose Authorization
\* header is absent, is not "Bearer" and one more part, or bears a token of
\* fewer than 20 characters is rejected as unauthorized with no validation
\* tried, no store lookup made and no identity set.
C24_HeaderRejectedFirst ==
    (Protected /\ request.path # <<>> /\ ~ HeaderOk) =>
        /\ attempts = <<>>
        /\ lookups = 0
        /\ apc \in {"idle", "header"}
        /\ Done => /\ resp.status = StatusUnauthorized
                   /\ ~ resp.next
                   /\ ctx = EmptyCtx

\* a Bearer header with a token of 19 characters was refused
C24_Witness ==
    /\ Done /\ Protected
    /\ request.header.present
    /\ request.header.parts = 2 /\ request.header.scheme = "Bearer"
    /\ request.header.token.len = MinTokenLen - 1
    /\ resp = AbortWith(StatusUnauthorized, "Invalid token")
    /\ attempts = <<>>

\* C28: on a path that needs authentication the middleware ends either with
\* c.Next(), user_id set and the last validation tried having succeeded,
\* or with an error response, c.Abort() and no key set; never with both and
\* never with c.Next() without user_id.
C28_NextOrAbort ==
    (Done /\ Protected) =>
        \/ /\ resp = PassOn
           /\ "user_id" \in ctx.keys
           /\ Len(attempts) >= 1
           /\ attempts[Len(attempts)].err = ErrNil
        \/ /\ ~ resp.next
           /\ resp.status \in {StatusUnauthorized, StatusInternalServerError}
           /\ resp.error # ""
           /\ ctx = EmptyCtx

\* a request passed on after the campus validation as last resort
C28_Witness ==
    /\ Done /\ GenericProtected
    /\ resp = PassOn
    /\ Strategies = <<"local", "campus">>
    /\ "user_id" \in ctx.keys

\* claim helpers: the middleware answers a request whose token it answered
\* last, at the same instant, on a path of the other class, the store
\* having answered both times
OtherClassAnswered ==
    /\ apc # "idle" /\ apc' = "idle"
    /\ last.path # <<>>
    /\ last.token = request.header.token
    /\ last.at = clock
    /\ IsFlexible(last.path) # IsFlexible(request.path)
    /\ last.status # StatusInternalServerError
    /\ resp'.status # StatusInternalServerError

\* the token passes the campus validation and the local one
PassesBoth(tok, t) ==
    /\ ValidateCampusToken(tok, t).err = ErrNil
    /\ ValidateToken(tok, env, t).err = ErrNil

\* C29 as stated: the same token with the same store is passed on on a
\* mahasiswa or assistant path exactly if it is passed on on the other
\* protected paths.
C29_ClassIndependent ==
    [][OtherClassAnswered => resp'.next = last.next]_vars

\* C29, amended: the two classes decide alike on every token that does not
\* pass both validations; a token that passes both is passed on on a
\* mahasiswa or assistant path, and on the other paths only when the store
\* has the row its user_id claim names.
C29_ClassIndependentUnlessBoth ==
    [][OtherClassAnswered =>
          IF ~ PassesBoth(request.header.token, clock)
          THEN resp'.next = last.next
          ELSE IF IsFlexible(request.path)
          THEN resp'.next
          ELSE resp'.next <=>
                 \E u \in Users : u.ID = request.header.token.ident.user_id]_vars

\* a campus token passed on on a mahasiswa or assistant path is, at the same
\* instant, before the campus validation as last resort on another path
C29_Witness ==
    /\ apc = "case3" /\ GenericProtected
    /\ last.token = request.header.token
    /\ last.at = clock
    /\ IsFlexible(last.path)
    /\ last.next
    /\ Strategies = <<"local">>
    /\ ~ PassesBoth(request.header.token, clock)
    /\ ValidateCampusToken(request.header.token, clock).err = ErrNil

\* claim helpers: the number a uid claim denotes when it is a non-negative
\* whole number or a string that is a decimal integer from end to end
UidIsInteger(tok) ==
    \/ tok.uid.type = "number" /\ tok.uid.num >= 0 /\ tok.uid.num % 2 = 0
    \/ tok.uid.type = "string" /\ tok.uid.str # <<>> /\ AllDigits(tok.uid.str)
UidValue(tok) ==
    IF tok.uid.type = "number" THEN tok.uid.num \div 2
    ELSE ScanDigits(tok.uid.str, 0, 0).value

\* C26: the user id ValidateCampusToken returns is the number the uid claim
\* denotes, as a JSON integer or as a string of decimal digits; a uid that
\* is negative, fractional or a string that is not a decimal integer from
\* end to end is refused as invalid.
C26_UidValueOrInvalid ==
    CampusChecked =>
        /\ checked.err = ErrNil =>
               UidIsInteger(checked.token) /\ checked.uid = UidValue(checked.token)
        /\ (checked.token.form = "jwt"
              /\ checked.token.uid.type \in {"number", "string"}
              /\ ~ UidIsInteger(checked.token)) => checked.err = ErrInvalidToken

\* claim helpers: a token was acquired; it has three parts, a payload that
\* decodes to a JSON object, and a numeric exp
Acquired == acquired.bearer # EmptyBearer
ExpDecodable(b) ==
    b.parts = 3 /\ b.base64 /\ b.json /\ b.exp.type = "number"

\* C25 as stated: the expiry stored for an acquired token is the value of
\* its exp claim when the token has three parts, a decodable payload and a
\* numeric exp, and the acquisition time plus 30 minutes otherwise.
C25_ExpiryIsExpClaim ==
    Acquired =>
        IF ExpDecodable(acquired.bearer)
        THEN Second(acquired.expiryTime) = acquired.bearer.exp.num
        ELSE acquired.expiryTime = acquired.at + DefaultExpiry

\* C25, amended: the expiry is the exp claim cut to whole seconds (its
\* fraction dropped), or the acquisition time plus 30 minutes.
C25_ExpiryIsWholeSeconds ==
    Acquired =>
        IF ExpDecodable(acquired.bearer)
        THEN /\ acquired.expiryTime = IntOf(acquired.bearer.exp.num)
             /\ acquired.bearer.exp.num % 2 = 0 =>
                    Second(acquired.expiryTime) = acquired.bearer.exp.num
             /\ acquired.bearer.exp.num >= 0 =>
                    /\ Second(acquired.expiryTime) <= acquired.bearer.exp.num
                    /\ acquired.bearer.exp.num < Second(acquired.expiryTime + 1)
        ELSE acquired.expiryTime = acquired.at + DefaultExpiry

\* a token with exp 30.5 was acquired after the clock had moved
C25_Witness ==
    /\ Acquired /\ acquired.at > 0
    /\ ExpDecodable(acquired.bearer)
    /\ acquired.bearer.exp.num = Second(SafetyMargin) + 1
    /\ acquired.expiryTime = SafetyMargin

\* claim helpers: no goroutine is between the call of getNewToken and the
\* end of its store
NoRefreshInFlight ==
    \A p \in Procs :
        pc[p] \notin {"authWait", "Lock", "writeRefreshToken", "writeExpiresAt"}

\* C27 as stated: once the refreshes have completed the cache holds the
\* credential the upstream issued last.
C27_LatestIssuedWins ==
    (NoRefreshInFlight /\ issued > 0) => cache.AuthToken.id = issued

\* C27, amended: the cache changes only in the stores, a store leaves the
\* whole credential of its login in the cache whatever was there, and once
\* the refreshes have completed the cache holds one issued credential
\* whole: that of the store that came last, not of the login that came last.
C27_LatestStoreWins ==
    [][/\ cache' # cache =>
             \E p \in Procs :
                 pc[p] \in {"Lock", "writeRefreshToken", "writeExpiresAt"}
                 /\ pc'[p] # pc[p]
       /\ \A p \in Procs :
             (pc[p] = "writeExpiresAt" /\ pc'[p] # "writeExpiresAt") =>
                 /\ cache'.AuthToken = newToken[p]
                 /\ cache'.RefreshToken = newToken[p].id
                 /\ cache'.ExpiresAt = newToken[p].exp
       /\ (NoRefreshInFlight' /\ issued' > 0) =>
             /\ cache'.AuthToken.id \in 1..issued'
             /\ cache'.RefreshToken = cache'.AuthToken.id
             /\ cache'.ExpiresAt = cache'.AuthToken.exp]_vars

\* two logins were made and stored, and the cache holds the first token
C27_Witness ==
    /\ NoRefreshInFlight
    /\ issued = 2
    /\ cache.AuthToken.id = 1
    /\ cache.RefreshToken = 1

\* claim helpers: the requests that answered 200, and those that read an
\* unexpired row and answered anything else
Refreshed(p) == rpc[p] = "done" /\ outcome[p] = "Token refreshed successfully"
RefreshFailed(p) ==
    rpc[p] = "done" /\ held[p] # NoRow /\ ~ Refreshed(p)

C30_FailureKeepsToken ==
    \A p \in Refreshers : RefreshFailed(p) => ~ removed[p]

====
